---- MODULE Spec2Model ----
(***************************************************************************)
(* Snake AI Arena: the headless game engine (src/src/game/HeadlessGame.ts) *)
(* and the grid utilities it uses (src/src/game/utils.ts).                 *)
(*                                                                         *)
(* JavaScript numbers are IEEE-754 doubles.  The seeded generator          *)
(* multiplies a 31-bit seed by a 31-bit constant, so its products exceed   *)
(* 2^53 and are rounded before the bit mask is applied.  The model keeps   *)
(* that rounding: a double is a pair (m, e) standing for m * 2^(-e), with  *)
(* m a natural number held as a little-endian sequence of 14-bit limbs.    *)
(***************************************************************************)
EXTENDS Integers, Sequences, FiniteSets, TLC

(***************************************************************************)
(* Natural numbers wider than 31 bits.                                     *)
(***************************************************************************)
Limb == 2^14
LimbBits == 14

RECURSIVE Carry(_, _)
Carry(cols, c) ==
  IF cols = <<>>
  THEN IF c = 0 THEN <<>> ELSE <<c % Limb>> \o Carry(<<>>, c \div Limb)
  ELSE <<(Head(cols) + c) % Limb>> \o Carry(Tail(cols), (Head(cols) + c) \div Limb)

Big(n) == Carry(<<n>>, 0)

LimbAt(a, i) == IF i >= 1 /\ i <= Len(a) THEN a[i] ELSE 0

RECURSIVE ColSum(_, _, _, _)
ColSum(a, b, k, i) ==
  IF i > Len(a) THEN 0
  ELSE a[i] * LimbAt(b, k - i + 1) + ColSum(a, b, k, i + 1)

BigMul(a, b) ==
  IF a = <<>> \/ b = <<>> THEN <<>>
  ELSE Carry([k \in 1..(Len(a) + Len(b) - 1) |-> ColSum(a, b, k, 1)], 0)

BigAdd(a, b) ==
  Carry([i \in 1..(IF Len(a) > Len(b) THEN Len(a) ELSE Len(b)) |->
           LimbAt(a, i) + LimbAt(b, i)], 0)

Bit(a, i) == (LimbAt(a, (i \div LimbBits) + 1) \div 2^(i % LimbBits)) % 2

RECURSIVE BitLen(_)
BitLen(a) ==
  IF a = <<>> THEN 0
  ELSE IF a[Len(a)] = 0 THEN BitLen(SubSeq(a, 1, Len(a) - 1))
  ELSE (Len(a) - 1) * LimbBits
       + (CHOOSE n \in 1..LimbBits : a[Len(a)] \div 2^n = 0 /\ a[Len(a)] \div 2^(n - 1) # 0)

\* a * 2^k
Shl(a, k) ==
  [i \in 1..(k \div LimbBits) |-> 0]
    \o Carry([i \in 1..Len(a) |-> a[i] * 2^(k % LimbBits)], 0)

\* floor(a / 2^k)
ShrLimbs(a, j, t) ==
  IF j >= Len(a) THEN <<>>
  ELSE [i \in 1..(Len(a) - j) |->
          (a[j + i] \div 2^t) + (LimbAt(a, j + i + 1) % 2^t) * 2^(LimbBits - t)]

Shr(a, k) == ShrLimbs(a, k \div LimbBits, k % LimbBits)

\* The low 31 bits of a, as an integer.
Low31(a) == LimbAt(a, 1) + LimbAt(a, 2) * Limb + (LimbAt(a, 3) % 8) * Limb * Limb

(***************************************************************************)
(* Doubles: [m, e] is m * 2^(-e).  Round53 rounds a natural number to 53   *)
(* significant bits, ties to even, as every double operation does.         *)
(***************************************************************************)
MantissaBits == 53

\* Dropping the k low bits of a rounds up when the first dropped bit is set
\* and either a lower bit is set or the kept part is odd.
RoundsUp(a, k) ==
  /\ Bit(a, k - 1) = 1
  /\ \/ \E i \in 0..(k - 2) : Bit(a, i) = 1
     \/ Bit(a, k) = 1

RoundAt(a, k) ==
  IF k <= 0 THEN a
  ELSE Shl(BigAdd(Shr(a, k), IF RoundsUp(a, k) THEN <<1>> ELSE <<>>), k)

Round53(a) == RoundAt(a, BitLen(a) - MantissaBits)

Double(n) == [m |-> Big(n), e |-> 0]

\* fl(v * n) for a natural number n < 2^31
FlMul(v, n) == [m |-> Round53(BigMul(v.m, Big(n))), e |-> v.e]

\* fl(v + n) for a natural number n < 2^31
FlAdd(v, n) == [m |-> Round53(BigAdd(v.m, Shl(Big(n), v.e))), e |-> v.e]

\* (v & 0x7fffffff) for v >= 0: ToInt32 truncates and reduces modulo 2^32,
\* the mask keeps the low 31 bits.
And7fffffff(v) == Low31(Shr(v.m, v.e))

(***************************************************************************)
(* utils.ts                                                                *)
(***************************************************************************)
GRID_SIZE == 16
HALF_GRID == GRID_SIZE \div 2

Pos(x, y, z) == [x |-> x, y |-> y, z |-> z]

\* One step of wrapping at most.
wrapOnce(val) ==
  IF val < -HALF_GRID THEN val + GRID_SIZE
  ELSE IF val >= HALF_GRID THEN val - GRID_SIZE
  ELSE val

RECURSIVE wrap(_)
wrap(val) ==
  IF val < -HALF_GRID THEN wrap(val + GRID_SIZE)
  ELSE IF val >= HALF_GRID THEN wrap(val - GRID_SIZE)
  ELSE val

wrapPosition(pos) == Pos(wrap(pos.x), wrap(pos.y), wrap(pos.z))

posEqual(a, b) == a.x = b.x /\ a.y = b.y /\ a.z = b.z

\* posKey is a string "x,y,z"; two keys are equal exactly when the three
\* numbers are, so the key is the triple.
posKey(pos) == <<pos.x, pos.y, pos.z>>

(***************************************************************************)
(* HeadlessGame.ts: SeededRandom                                           *)
(***************************************************************************)
LcgMultiplier == 1103515245
LcgIncrement == 12345
Mask31 == 2147483647

\* this.seed = (this.seed * 1103515245 + 12345) & 0x7fffffff
nextSeed(seed) == Double(And7fffffff(FlAdd(FlMul(seed, LcgMultiplier), LcgIncrement)))

\* floor(s * n / d) for 0 <= s <= d, by n additions of s that never leave 0..d
RECURSIVE MulDivFloor(_, _, _, _, _)
MulDivFloor(s, n, d, q, r) ==
  IF n = 0 THEN q
  ELSE IF r >= d - s THEN MulDivFloor(s, n - 1, d, q + 1, r - (d - s))
  ELSE MulDivFloor(s, n - 1, d, q, r + s)

\* next() is seed / 0x7fffffff after the update; nextInt(min, max) is
\* Math.floor(next() * (max - min + 1)) + min.  The quotient's rounding error
\* (2^-53 relative) cannot carry the product across an integer, because
\* seed * n / 0x7fffffff is either an integer or at least 2^-31 away from one.
\* The result is the new seed and the integer drawn.
drawn(s, min, max) ==
  [seed |-> s, value |-> MulDivFloor(Low31(s.m), max - min + 1, Mask31, 0, 0) + min]

nextInt(seed, min, max) == drawn(nextSeed(seed), min, max)

(***************************************************************************)
(* HeadlessGame.ts: the engine.  A game is the record of the fields of a   *)
(* HeadlessGame instance; rng is the seed field of its SeededRandom.       *)
(***************************************************************************)
null == "null"

MAX_FRAMES == 25000
MaxAttempts == 1000
SlowLimitMs == 100
ScoreIncrement == 10

InitialSnake == <<Pos(0, 0, 0), Pos(-1, 0, 0), Pos(-2, 0, 0)>>

Axis == (-HALF_GRID)..(HALF_GRID - 1)

LexLess(a, b) ==
  \/ a[1] < b[1]
  \/ a[1] = b[1] /\ a[2] < b[2]
  \/ a[1] = b[1] /\ a[2] = b[2] /\ a[3] < b[3]

\* The do-while of spawnFood: draw x, y, z and count the attempt; go on while
\* the cell is occupied and fewer than 1000 attempts were made.  st is the
\* loop's state: the last cell drawn, the generator's seed, the attempts
\* made and whether the loop has ended.
drawnXYZ(occupied, x, y, rz, attempts) ==
  [pos |-> Pos(x, y, rz.value), seed |-> rz.seed, attempts |-> attempts,
   done |-> ~(posKey(Pos(x, y, rz.value)) \in occupied /\ attempts < MaxAttempts)]

drawnXY(occupied, x, ry, attempts) ==
  drawnXYZ(occupied, x, ry.value, nextInt(ry.seed, -HALF_GRID, HALF_GRID - 1), attempts)

drawnX(occupied, rx, attempts) ==
  drawnXY(occupied, rx.value, nextInt(rx.seed, -HALF_GRID, HALF_GRID - 1), attempts)

attempt(occupied, st) ==
  drawnX(occupied, nextInt(st.seed, -HALF_GRID, HALF_GRID - 1), st.attempts + 1)

\* n iterations of the loop, or fewer when it ends earlier (by halving, to
\* keep the evaluation shallow).
RECURSIVE iterate(_, _, _)
iterate(occupied, st, n) ==
  IF st.done \/ n = 0 THEN st
  ELSE IF n = 1 THEN attempt(occupied, st)
  ELSE iterate(occupied, iterate(occupied, st, n \div 2), n - (n \div 2))

randomAttempts(occupied, seed) ==
  iterate(occupied, [pos |-> Pos(0, 0, 0), seed |-> seed, attempts |-> 0, done |-> FALSE],
          MaxAttempts)

\* The systematic scan: the first free cell in x, y, z order; when there is
\* none the loops end with pos the last cell visited.
firstOf(free) ==
  IF free = {} THEN <<HALF_GRID - 1, HALF_GRID - 1, HALF_GRID - 1>>
  ELSE CHOOSE c \in free : \A d \in free : c = d \/ LexLess(c, d)

keyPos(k) == Pos(k[1], k[2], k[3])

scanGrid(occupied) == keyPos(firstOf({k \in Axis \X Axis \X Axis : k \notin occupied}))

afterAttempts(occupied, r) ==
  [pos |-> IF posKey(r.pos) \in occupied THEN scanGrid(occupied) ELSE r.pos,
   seed |-> r.seed]

spawnFoodOn(occupied, seed) == afterAttempts(occupied, randomAttempts(occupied, seed))

spawnFood(snake, seed) == spawnFoodOn({posKey(snake[i]) : i \in 1..Len(snake)}, seed)

\* constructor(algorithm, seed, maxFrames), and the body of reset() after the
\* generator has been chosen
started(f, maxFrames) ==
  [snake |-> InitialSnake, food |-> f.pos, score |-> 0, frame |-> 0,
   gameOver |-> FALSE, deathReason |-> null, rng |-> f.seed,
   maxFrames |-> maxFrames]

newGame(seed, maxFrames) == started(spawnFood(InitialSnake, seed), maxFrames)

getState(g) ==
  [snake |-> g.snake, food |-> g.food, score |-> g.score, frame |-> g.frame,
   gameOver |-> g.gameOver, deathReason |-> g.deathReason]

(***************************************************************************)
(* Objects handed out.  A caller may write to what it is given; the write  *)
(* reaches the engine when the object is the engine's own.  An array is    *)
(* handed with two marks: whether it is the engine's array, and whether    *)
(* its elements are the engine's position objects.                         *)
(***************************************************************************)
handSnake(snake, array, cells) == [value |-> snake, array |-> array, cells |-> cells]
handFood(food, shared) == [value |-> food, shared |-> shared]

\* A context that holds the engine's own array and objects.
contextSharing(g) ==
  [snake |-> handSnake(g.snake, TRUE, TRUE), food |-> handFood(g.food, TRUE),
   gridSize |-> GRID_SIZE, score |-> g.score, frame |-> g.frame]

\* const ctx = { snake: [...this.snake.map(p => ({ ...p }))],
\*               food: { ...this.food }, gridSize, score, frame }
contextOf(g) ==
  [snake |-> handSnake(g.snake, FALSE, FALSE), food |-> handFood(g.food, FALSE),
   gridSize |-> GRID_SIZE, score |-> g.score, frame |-> g.frame]

\* A snapshot whose snake is a new array of the engine's own objects.
handedStateShallow(g) ==
  [snake |-> handSnake(g.snake, FALSE, TRUE), food |-> handFood(g.food, FALSE),
   score |-> g.score, frame |-> g.frame, gameOver |-> g.gameOver,
   deathReason |-> g.deathReason]

\* getState() as an object: snake: this.snake.map(p => ({ ...p })),
\* food: { ...this.food }
handedState(g) ==
  [snake |-> handSnake(g.snake, FALSE, FALSE), food |-> handFood(g.food, FALSE),
   score |-> g.score, frame |-> g.frame, gameOver |-> g.gameOver,
   deathReason |-> g.deathReason]

(***************************************************************************)
(* What one call of the decision function does: it returns a direction or  *)
(* a falsy value after some measured time, or it throws a value.           *)
(* elapsed is in tenths of a millisecond.                                  *)
(***************************************************************************)
Returns(dir, elapsed) == [kind |-> "direction", dir |-> dir, error |-> "", elapsed |-> elapsed]
ReturnsNull(elapsed) == [kind |-> "null", dir |-> Pos(0, 0, 0), error |-> "", elapsed |-> elapsed]
Throws(error) == [kind |-> "throw", dir |-> Pos(0, 0, 0), error |-> error, elapsed |-> 0]

\* `${error}`: an Error object converts to "Error: <message>"; a Symbol (or an
\* object without a usable toString) makes the template literal throw a
\* TypeError.
ErrorObject == "Error: Test error"
SymbolValue == "Symbol(boom)"
Stringifiable(error) == error # SymbolValue

\* A limit of a second.
tooSlowAboveSecond(elapsed) == elapsed > 1000 * 10

\* A limit that also rejects a call measured at exactly 100 ms.
tooSlowAtLimit(elapsed) == elapsed >= SlowLimitMs * 10

tooSlow(elapsed) == elapsed > SlowLimitMs * 10

\* Math.round(elapsed), elapsed in tenths of a millisecond
roundMs(elapsed) == (elapsed + 5) \div 10

Last(s) == s[Len(s)]
ButLast(s) == SubSeq(s, 1, Len(s) - 1)
\* push() in place of unshift(): the new head goes to the tail end.
Push(s, e) == Append(s, e)

Unshift(s, e) == <<e>> \o s

\* The move of tick(), from the decision's direction to the new body.
\* this.score += 10; this.food = this.spawnFood(), f being what spawnFood
\* gives on the grown body
\* Eating that respawns the food but leaves the score alone.
eatWithoutScore(g, f) == [g EXCEPT !.food = f.pos, !.rng = f.seed]

eat(g, f) ==
  [g EXCEPT !.score = g.score + ScoreIncrement, !.food = f.pos, !.rng = f.seed]

unshifted(g, newHead) == [g EXCEPT !.snake = Unshift(g.snake, newHead)]

\* A collision check that looks at no cell.
bodyToCheckNothing(g, willEat) == <<>>

\* A collision check that always looks at the tail too.
bodyToCheckWithTail(g, willEat) == g.snake

bodyToCheck(g, willEat) == IF willEat THEN g.snake ELSE ButLast(g.snake)

moveTo(g, newHead, willEat) ==
  IF \E i \in 1..Len(bodyToCheck(g, willEat)) : posEqual(bodyToCheck(g, willEat)[i], newHead)
  THEN [g EXCEPT !.gameOver = TRUE, !.deathReason = "self collision"]
  ELSE IF willEat
  THEN eat(unshifted(g, newHead), spawnFood(Unshift(g.snake, newHead), g.rng))
  ELSE [g EXCEPT !.snake = ButLast(Unshift(g.snake, newHead))]

\* A new head that moves one cell at most along each axis.
unit(v) == IF v > 0 THEN 1 ELSE IF v < 0 THEN -1 ELSE 0
newHeadOfClamped(head, direction) ==
  wrapPosition(Pos(head.x + unit(direction.x), head.y + unit(direction.y),
                   head.z + unit(direction.z)))

newHeadOf(head, direction) ==
  wrapPosition(Pos(head.x + direction.x, head.y + direction.y, head.z + direction.z))

moveHead(g, newHead) == moveTo(g, newHead, posEqual(newHead, g.food))

move(g, direction) == moveHead(g, newHeadOf(g.snake[1], direction))

\* tick(): g is the game before the call, out what the decision function
\* does if it is called.  The result is the game after the call, whether the
\* decision function was called, and whether an exception left tick().
\* tickRunning is tick() after this.frame++, on a game that was not over.
\* A frame limit compared with > in place of >=.
timedOutLate(g1) == g1.frame > g1.maxFrames

\* if (this.frame >= this.maxFrames)
timedOut(g1) == g1.frame >= g1.maxFrames

tickRunning(g1, out) ==
  IF timedOut(g1)
  THEN [g |-> [g1 EXCEPT !.gameOver = TRUE, !.deathReason = "timeout"],
        called |-> FALSE, threw |-> FALSE]
  ELSE IF out.kind = "throw"
  THEN IF Stringifiable(out.error)
       THEN [g |-> [g1 EXCEPT !.gameOver = TRUE,
                              !.deathReason = "algorithm error: " \o out.error],
             called |-> TRUE, threw |-> FALSE]
       ELSE [g |-> [g1 EXCEPT !.gameOver = TRUE],
             called |-> TRUE, threw |-> TRUE]
  ELSE IF tooSlow(out.elapsed)
  THEN [g |-> [g1 EXCEPT !.gameOver = TRUE,
                         !.deathReason = "algorithm too slow ("
                            \o ToString(roundMs(out.elapsed)) \o "ms per frame)"],
        called |-> TRUE, threw |-> FALSE]
  ELSE IF out.kind = "null"
  THEN [g |-> [g1 EXCEPT !.gameOver = TRUE, !.deathReason = "no valid move"],
        called |-> TRUE, threw |-> FALSE]
  ELSE [g |-> move(g1, out.dir), called |-> TRUE, threw |-> FALSE]

\* tick() without its first three lines: a game that is over is ticked on.
tickWithoutGuard(g, out) == tickRunning([g EXCEPT !.frame = g.frame + 1], out)

\* tick() counting a frame only for a call that leaves the game running.
uncounted(r, frame) ==
  IF r.g.gameOver THEN [r EXCEPT !.g = [r.g EXCEPT !.frame = frame]] ELSE r

tickCountingMoves(g, out) ==
  IF g.gameOver THEN [g |-> g, called |-> FALSE, threw |-> FALSE]
  ELSE uncounted(tickRunning([g EXCEPT !.frame = g.frame + 1], out), g.frame)

\* tick() calling the decision function before it looks at the frame limit.
tickDecidingFirst(g, out) ==
  IF g.gameOver THEN [g |-> g, called |-> FALSE, threw |-> FALSE]
  ELSE [tickRunning([g EXCEPT !.frame = g.frame + 1], out) EXCEPT !.called = TRUE]

tick(g, out) ==
  IF g.gameOver THEN [g |-> g, called |-> FALSE, threw |-> FALSE]
  ELSE tickRunning([g EXCEPT !.frame = g.frame + 1], out)

\* reset() that forgets to clear the reason of the last game's end.
resetKeepingReason(g, withSeed, seed) ==
  [newGame(IF withSeed THEN seed ELSE g.rng, g.maxFrames)
     EXCEPT !.deathReason = g.deathReason]

\* reset(seed?): a new generator only when a seed is given
reset(g, withSeed, seed) ==
  newGame(IF withSeed THEN seed ELSE g.rng, g.maxFrames)

(***************************************************************************)
(* The inputs explored.                                                    *)
(***************************************************************************)
\* Seed 2653941 puts the first food at (1,0,0) and the second at (2,0,0);
\* 12345 is the seed of the unit tests; the third is the double
\* 1.9460277619454183 (8764129903550026 * 2^-52).
SeedTwoFoods == Double(2653941)
SeedOfTests == Double(12345)
SeedFraction == [m |-> <<7754, 1706, 12000, 1992>>, e |-> 52]
Seeds == {SeedTwoFoods, SeedOfTests, SeedFraction}

MaxFramesCap == 3
MaxFramesChoices == 0..MaxFramesCap

MaxUnseededResets == 1
ResetSeeds == {SeedTwoFoods}

\* utils.ts ALL_DIRECTIONS
ALL_DIRECTIONS ==
  {Pos(1, 0, 0), Pos(-1, 0, 0), Pos(0, 1, 0), Pos(0, -1, 0), Pos(0, 0, 1), Pos(0, 0, -1)}

\* Directions the engine does not reject although they are no unit steps.
OtherDirections == {Pos(0, 0, 0), Pos(16, 0, 0), Pos(-2, 0, 0), Pos(9, 1, 0)}

\* The decisions explored: four of the six unit steps and the others.
Directions ==
  {Pos(1, 0, 0), Pos(-1, 0, 0), Pos(0, 1, 0), Pos(0, 0, -1)} \cup OtherDirections

FastElapsed == {0, 1000}
SlowElapsed == {1004, 2506}
Elapsed == FastElapsed \cup SlowElapsed

Outcomes ==
  {Returns(d, 0) : d \in Directions}
    \cup {Returns(Pos(1, 0, 0), e) : e \in Elapsed}
    \cup {ReturnsNull(e) : e \in {0, 1004}}
    \cup {Throws(ErrorObject), Throws(SymbolValue)}

(***************************************************************************)
(* The state.  game is the HeadlessGame instance.  The others observe its  *)
(* calls: calls counts the decision function's invocations in the current  *)
(* game, invoked says whether the last tick invoked it, ret is the value   *)
(* the last call returned (<<>> when it returned none), thrown whether an  *)
(* exception left it, op its name.  pc and runTicks are runToCompletion's  *)
(* loop: whether it is running and how many ticks the call in progress or  *)
(* just returned has made.  unseeded counts the resets made without a seed *)
(* since the generator was last given one.  twin is a second engine, built *)
(* with the same seed and given the same decisions, and slowSeen whether   *)
(* either engine has measured a call above the limit.                      *)
(*                                                                         *)
(* last is what the decision function did in the last tick that called it, *)
(* rnd a SeededRandom used on its own, held the objects the engine has     *)
(* handed to its callers, and bench the state of a benchmark run.          *)
(***************************************************************************)
VARIABLES game, calls, invoked, ret, thrown, op, pc, runTicks, unseeded, twin, slowSeen,
          last, rnd, held, bench, editor, controller, util, algorithm, dashboard

vars == <<game, calls, invoked, ret, thrown, op, pc, runTicks, unseeded, twin, slowSeen,
          last, rnd, held, bench, editor, controller, util, algorithm, dashboard>>

\* The editor page, the playback controller, a call of a function of
\* utils.ts, the built-in algorithm a game was constructed with and the
\* dashboard page.
apart == <<editor, controller, util, algorithm, dashboard>>

\* What the engine's own operations leave alone.
others == <<last, rnd, held, bench, editor, controller, util, algorithm, dashboard>>

\* The values of these while they are not in use.
NoDecision == <<>>
NoGenerator == [seed |-> Double(0), draws |-> 0, min |-> 0, max |-> 0, value |-> 0]
NothingHeld == [ctx |-> <<>>, snapshot |-> <<>>, writes |-> 0]
NoBenchmark == <<>>
NoEditor == <<>>
NoController == <<>>
NoCall == <<>>
NoAlgorithm == "none"
NoDashboard == <<>>

Apart ==
  /\ editor = NoEditor
  /\ controller = NoController
  /\ util = NoCall
  /\ algorithm = NoAlgorithm
  /\ dashboard = NoDashboard

Unused ==
  /\ last = NoDecision
  /\ rnd = NoGenerator
  /\ held = NothingHeld
  /\ bench = NoBenchmark
  /\ Apart

Init ==
  \E seed \in Seeds, maxFrames \in MaxFramesChoices :
    /\ game = newGame(seed, maxFrames)
    /\ twin = newGame(seed, maxFrames)
    /\ calls = 0
    /\ invoked = FALSE
    /\ ret = <<>>
    /\ thrown = FALSE
    /\ op = "constructor"
    /\ pc = "idle"
    /\ runTicks = 0
    /\ unseeded = 0
    /\ slowSeen = FALSE
  /\ Unused

\* game.tick()
Tick ==
  /\ pc = "idle"
  /\ \E out \in Outcomes :
       \E r \in {tick(game, out)} :
           /\ game' = r.g
           /\ calls' = IF r.called THEN calls + 1 ELSE calls
           /\ invoked' = r.called
           /\ thrown' = r.threw
           /\ ret' = IF r.threw THEN <<>> ELSE <<getState(r.g)>>
  /\ op' = "tick"
  /\ runTicks' = 0
  /\ UNCHANGED <<pc, unseeded, twin, slowSeen>>
  /\ UNCHANGED others

\* game.reset(seed?)
Reset ==
  /\ pc = "idle"
  /\ \E withSeed \in BOOLEAN, seed \in ResetSeeds :
       /\ withSeed \/ unseeded < MaxUnseededResets
       /\ game' = reset(game, withSeed, seed)
       /\ unseeded' = IF withSeed THEN 0 ELSE unseeded + 1
  /\ calls' = 0
  /\ invoked' = FALSE
  /\ thrown' = FALSE
  /\ ret' = <<>>
  /\ op' = "reset"
  /\ runTicks' = 0
  /\ UNCHANGED <<pc, twin, slowSeen>>
  /\ UNCHANGED others

\* game.runToCompletion(): entry, one iteration of the while loop, and the
\* return.  Nothing else runs while it does.
RunToCompletion ==
  /\ pc = "idle"
  /\ pc' = "run"
  /\ runTicks' = 0
  /\ thrown' = FALSE
  /\ UNCHANGED <<game, calls, invoked, ret, op, unseeded, twin, slowSeen>>
  /\ UNCHANGED others

RunLoop ==
  /\ pc = "run"
  /\ ~game.gameOver
  /\ \E out \in Outcomes :
       \E r \in {tick(game, out)} :
           /\ game' = r.g
           /\ calls' = IF r.called THEN calls + 1 ELSE calls
           /\ invoked' = r.called
           /\ thrown' = r.threw
           /\ pc' = IF r.threw THEN "idle" ELSE "run"
           /\ op' = IF r.threw THEN "runToCompletion" ELSE op
  /\ runTicks' = runTicks + 1
  /\ ret' = <<>>
  /\ UNCHANGED <<unseeded, twin, slowSeen>>
  /\ UNCHANGED others

RunReturn ==
  /\ pc = "run"
  /\ game.gameOver
  /\ pc' = "idle"
  /\ ret' = <<getState(game)>>
  /\ op' = "runToCompletion"
  /\ UNCHANGED <<game, calls, invoked, thrown, runTicks, unseeded, twin, slowSeen>>
  /\ UNCHANGED others

Next == Tick \/ Reset

Spec == Init /\ [][Next]_vars

(***************************************************************************)
(* Two engines built with the same seed and maxFrames, ticked in step.     *)
(* Each call of the decision function gives both the same result; the time *)
(* each engine measures for it is its own.                                 *)
(***************************************************************************)
overBudget(elapsed) == elapsed > SlowLimitMs * 10

TwinTick ==
  /\ pc = "idle"
  /\ \E out \in Outcomes, elapsed2 \in Elapsed :
       /\ \E r \in {tick(game, out)} :
            /\ game' = r.g
            /\ calls' = IF r.called THEN calls + 1 ELSE calls
            /\ invoked' = r.called
            /\ thrown' = r.threw
            /\ ret' = IF r.threw THEN <<>> ELSE <<getState(r.g)>>
       /\ twin' = tick(twin, [out EXCEPT !.elapsed = elapsed2]).g
       /\ slowSeen' = (slowSeen \/ overBudget(out.elapsed) \/ overBudget(elapsed2))
  /\ op' = "tick"
  /\ UNCHANGED <<pc, runTicks, unseeded>>
  /\ UNCHANGED others

(***************************************************************************)
(* runToCompletion on a fresh or partly played engine.                     *)
(***************************************************************************)
RunNext == Tick \/ RunToCompletion \/ RunLoop \/ RunReturn

RunSpec == Init /\ [][RunNext]_vars

TwinSpec == Init /\ [][TwinTick]_vars

(***************************************************************************)
(* The end of a long game.  A decision function may follow a Hamiltonian   *)
(* cycle of the 16 x 16 x 16 torus: every layer z is crossed along the     *)
(* same cycle of the 16 x 16 square, forwards on even layers and backwards *)
(* on odd ones, and the step from the last layer wraps to the first.  The  *)
(* cycle passes (-2,0,0), (-1,0,0), (0,0,0) in this order, so the body is  *)
(* always an arc of it and the snake never meets itself.  Played so from   *)
(* seed 1 with maxFrames above 4133768, the game reaches, after the tick   *)
(* of frame 4133768, a body of 4093 cells whose head is cell 3080 of the   *)
(* cycle, with the food at (1,-8,4) and the generator at 554750720 (the    *)
(* run is reproduced outside the model: 4090 foods and some four million   *)
(* ticks are more than TLC can enumerate).  Played so from seed 2 the game *)
(* reaches after frame 4206616 a body of 4093 cells with head 2200, food   *)
(* at (-5,2,0) and the generator at 1094712832.  LateInit is either state. *)
(***************************************************************************)
SquareCells == GRID_SIZE * GRID_SIZE
GridCells == SquareCells * GRID_SIZE

\* The cycle of the square: along row 0, then rows 1..15 to and fro over the
\* columns 1..15, then back along column 0.
squareCell(i) ==
  IF i < GRID_SIZE THEN <<i, 0>>
  ELSE IF i > SquareCells - GRID_SIZE THEN <<0, SquareCells - i>>
  ELSE IF (((i - GRID_SIZE) \div (GRID_SIZE - 1)) + 1) % 2 = 1
  THEN <<GRID_SIZE - 1 - ((i - GRID_SIZE) % (GRID_SIZE - 1)),
         ((i - GRID_SIZE) \div (GRID_SIZE - 1)) + 1>>
  ELSE <<1 + ((i - GRID_SIZE) % (GRID_SIZE - 1)),
         ((i - GRID_SIZE) \div (GRID_SIZE - 1)) + 1>>

layerCell(uv, layer) == Pos(uv[1] - HALF_GRID, uv[2] - HALF_GRID, layer - HALF_GRID)

cycleCell(i) ==
  layerCell(squareCell(IF (i \div SquareCells) % 2 = 0
                       THEN i % SquareCells
                       ELSE SquareCells - 1 - (i % SquareCells)),
            i \div SquareCells)

\* The body of len cells whose head is cell h of the cycle.
arc(h, len) == [j \in 1..len |-> cycleCell((h - (j - 1) + GridCells) % GridCells)]

LateSlack == 6

LateGames ==
  {[snake |-> arc(3080, 4093), food |-> Pos(1, -8, 4), score |-> 40900,
    frame |-> 4133768, gameOver |-> FALSE, deathReason |-> null,
    rng |-> Double(554750720), maxFrames |-> 4133768 + LateSlack],
   [snake |-> arc(2200, 4093), food |-> Pos(-5, 2, 0), score |-> 40900,
    frame |-> 4206616, gameOver |-> FALSE, deathReason |-> null,
    rng |-> Double(1094712832), maxFrames |-> 4206616 + LateSlack]}

LateInit ==
  /\ game \in LateGames
  /\ twin = game
  /\ calls = game.frame
  /\ invoked = TRUE
  /\ ret = <<getState(game)>>
  /\ thrown = FALSE
  /\ op = "tick"
  /\ pc = "idle"
  /\ runTicks = 0
  /\ unseeded = 0
  /\ slowSeen = FALSE
  /\ Unused

LateSpec == LateInit /\ [][Tick]_vars

(***************************************************************************)
(* SeededRandom on its own: new SeededRandom(seed), then calls of          *)
(* nextInt(min, max).  rnd holds the generator's seed field, the number of *)
(* calls made, and the arguments and the result of the last call.          *)
(***************************************************************************)
MaxDraws == 4

\* Seeds given to the constructor: integers, and the one double of Seeds.
GeneratorSeeds ==
  {Double(n) : n \in {0, 1, 2, 42, 123, 12345, 2653941, 230538014, Mask31}}
    \cup {SeedFraction}

\* The ranges asked for: the one spawnFood uses, a coin and a die of four.
Ranges == {<<-HALF_GRID, HALF_GRID - 1>>, <<0, 1>>, <<1, 4>>}

RngInit ==
  /\ \E seed \in GeneratorSeeds : rnd = [NoGenerator EXCEPT !.seed = seed]
  /\ game = newGame(SeedOfTests, 0)
  /\ twin = game
  /\ calls = 0
  /\ invoked = FALSE
  /\ ret = <<>>
  /\ thrown = FALSE
  /\ op = "constructor"
  /\ pc = "idle"
  /\ runTicks = 0
  /\ unseeded = 0
  /\ slowSeen = FALSE
  /\ last = NoDecision
  /\ held = NothingHeld
  /\ bench = NoBenchmark
  /\ Apart

\* rng.nextInt(min, max)
NextInt ==
  /\ rnd.draws < MaxDraws
  /\ \E range \in Ranges :
       \E r \in {nextInt(rnd.seed, range[1], range[2])} :
           rnd' = [seed |-> r.seed, draws |-> rnd.draws + 1,
                   min |-> range[1], max |-> range[2], value |-> r.value]
  /\ UNCHANGED <<game, calls, invoked, ret, thrown, op, pc, runTicks, unseeded, twin,
                 slowSeen, last, held, bench>>
  /\ UNCHANGED apart

RngSpec == RngInit /\ [][NextInt]_vars

(***************************************************************************)
(* An engine built with the default maxFrames, its caller and its decision *)
(* function.  Every tick is observed: last is what the decision function   *)
(* did, held the context it was given and the snapshot the caller got.     *)
(* Both may write to what they hold.                                       *)
(***************************************************************************)
MaxPlayTicks == 3
MaxWrites == 1

PlayInit ==
  /\ \E seed \in Seeds : game = newGame(seed, MAX_FRAMES)
  /\ twin = game
  /\ calls = 0
  /\ invoked = FALSE
  /\ ret = <<>>
  /\ thrown = FALSE
  /\ op = "constructor"
  /\ pc = "idle"
  /\ runTicks = 0
  /\ unseeded = 0
  /\ slowSeen = FALSE
  /\ Unused

\* game.tick(), observed
ObservedTick ==
  /\ pc = "idle"
  /\ game.gameOver \/ game.frame < MaxPlayTicks
  /\ \E out \in Outcomes :
       \E r \in {tick(game, out)} :
           /\ game' = r.g
           /\ calls' = IF r.called THEN calls + 1 ELSE calls
           /\ invoked' = r.called
           /\ thrown' = r.threw
           /\ ret' = IF r.threw THEN <<>> ELSE <<getState(r.g)>>
           /\ last' = IF r.called THEN <<out>> ELSE NoDecision
           /\ held' = [ctx |-> IF r.called
                               THEN <<contextOf([game EXCEPT !.frame = game.frame + 1])>>
                               ELSE <<>>,
                       snapshot |-> IF r.threw THEN <<>> ELSE <<handedState(r.g)>>,
                       writes |-> 0]
  /\ op' = "tick"
  /\ runTicks' = 0
  /\ UNCHANGED <<pc, unseeded, twin, slowSeen, rnd, bench>>
  /\ UNCHANGED apart

\* game.getState()
GetState ==
  /\ pc = "idle"
  /\ op # "getState"
  /\ ret' = <<getState(game)>>
  /\ held' = [held EXCEPT !.snapshot = <<handedState(game)>>]
  /\ thrown' = FALSE
  /\ op' = "getState"
  /\ UNCHANGED <<game, calls, invoked, pc, runTicks, unseeded, twin, slowSeen, last, rnd,
                 bench>>
  /\ UNCHANGED apart

\* The writes a holder can make: to a coordinate of the first position of
\* the snake array, to the array itself (push), or to the food's coordinate.
written(pos) == [pos EXCEPT !.x = 5]

writeCell(h) == [h EXCEPT !.snake.value[1] = written(h.snake.value[1])]
writePush(h) == [h EXCEPT !.snake.value = Append(h.snake.value, Pos(5, 5, 5))]
writeFood(h) == [h EXCEPT !.food.value = written(h.food.value)]

\* What a write to h does to the engine.
reaches(g, h, kind) ==
  IF kind = "cell" /\ h.snake.cells
  THEN [g EXCEPT !.snake[1] = written(g.snake[1])]
  ELSE IF kind = "push" /\ h.snake.array
  THEN [g EXCEPT !.snake = Append(g.snake, Pos(5, 5, 5))]
  ELSE IF kind = "food" /\ h.food.shared
  THEN [g EXCEPT !.food = written(g.food)]
  ELSE g

write(h, kind) ==
  IF kind = "cell" THEN writeCell(h)
  ELSE IF kind = "push" THEN writePush(h)
  ELSE writeFood(h)

WriteKinds == {"cell", "push", "food"}

\* The decision function writes to the context it was given (during the
\* call or later, having kept it), or the caller writes to its snapshot.
Mutate ==
  /\ pc = "idle"
  /\ held.writes < MaxWrites
  /\ \E kind \in WriteKinds :
       \/ /\ held.ctx # <<>>
          /\ held' = [held EXCEPT !.ctx = <<write(held.ctx[1], kind)>>,
                                  !.writes = held.writes + 1]
          /\ game' = reaches(game, held.ctx[1], kind)
       \/ /\ held.snapshot # <<>>
          /\ held' = [held EXCEPT !.snapshot = <<write(held.snapshot[1], kind)>>,
                                  !.writes = held.writes + 1]
          /\ game' = reaches(game, held.snapshot[1], kind)
  /\ op' = "write"
  /\ UNCHANGED <<calls, invoked, ret, thrown, pc, runTicks, unseeded, twin, slowSeen,
                 last, rnd, bench>>
  /\ UNCHANGED apart

PlayNext == ObservedTick \/ GetState \/ Mutate

PlaySpec == PlayInit /\ [][PlayNext]_vars

(***************************************************************************)
(* Benchmarks.  runBenchmark of HeadlessGame.ts takes a decision function, *)
(* runBenchmark of AlgorithmRunner.ts compiles source text first and calls *)
(* onProgress after every game.  A decision function is here one that does *)
(* the same at every call.                                                 *)
(***************************************************************************)
Policies == {"null", "throwError", "throwSymbol", "right", "back", "slow", "diagonal"}

decision(policy) ==
  IF policy = "null" THEN ReturnsNull(0)
  ELSE IF policy = "throwError" THEN Throws(ErrorObject)
  ELSE IF policy = "throwSymbol" THEN Throws(SymbolValue)
  ELSE IF policy = "right" THEN Returns(Pos(1, 0, 0), 0)
  ELSE IF policy = "back" THEN Returns(Pos(-1, 0, 0), 0)
  ELSE IF policy = "diagonal" THEN Returns(Pos(0, -1, -1), 0)
  ELSE Returns(Pos(1, 0, 0), 2506)

\* while (!this.gameOver) this.tick(): at most n iterations, fewer when the
\* game is over or an exception has left tick() (by halving, to keep the
\* evaluation shallow).  st is the result of the last tick.
RECURSIVE ticksOf(_, _, _)
ticksOf(st, out, n) ==
  IF st.g.gameOver \/ st.threw \/ n = 0 THEN st
  ELSE IF n = 1 THEN tick(st.g, out)
  ELSE ticksOf(ticksOf(st, out, n \div 2), out, n - (n \div 2))

\* runToCompletion() on g with a decision function that always does out.
\* The frame limit ends the loop within maxFrames iterations, or one.
runToCompletion(g, out) ==
  ticksOf([g |-> g, called |-> FALSE, threw |-> FALSE], out,
          IF g.maxFrames < 1 THEN 1 ELSE g.maxFrames)

\* new HeadlessGame(algorithm, seed).runToCompletion()
playedGame(policy, seed) ==
  runToCompletion(newGame(Double(seed), MAX_FRAMES), decision(policy))

\* Values thrown while source text is evaluated, and errors raised by the
\* compiler: isError is `instanceof Error`, message the message property (a
\* sequence of the strings concatenated), printable whether `${message}`
\* converts it.
Thrown(isError, message, printable) ==
  [isError |-> isError, message |-> message, printable |-> printable]

SourceKinds ==
  {"function", "syntaxError", "throwsError", "throwsString", "throwsSymbolMessage",
   "notAFunction", "undefined", "returnsFunction"}

\* new Function('utils', wrappedCode) and factory(utils): the function the
\* text defines, null when it defines none, or the value thrown.  The text is
\* the start of the factory's body: one that returns a function itself
\* ("returnsFunction") ends the factory before algorithm is looked at.
evaluated(code) ==
  IF code.kind \in {"function", "returnsFunction"}
  THEN [threw |-> FALSE, fn |-> <<code.policy>>]
  ELSE IF code.kind = "syntaxError"
  THEN [threw |-> TRUE, value |-> Thrown(TRUE, <<"Unexpected token">>, TRUE)]
  ELSE IF code.kind = "throwsError"
  THEN [threw |-> TRUE, value |-> Thrown(TRUE, <<"boom">>, TRUE)]
  ELSE IF code.kind = "throwsString"
  THEN [threw |-> TRUE, value |-> Thrown(FALSE, <<>>, TRUE)]
  ELSE IF code.kind = "throwsSymbolMessage"
  THEN [threw |-> TRUE, value |-> Thrown(TRUE, <<SymbolValue>>, FALSE)]
  ELSE [threw |-> FALSE, fn |-> <<>>]

NotAFunction == Thrown(TRUE, <<"Code must define an \"algorithm\" function">>, TRUE)
TypeError == Thrown(TRUE, <<"Cannot convert a Symbol value to a string">>, TRUE)

\* catch (error) { throw new Error(`Compilation error: ${...}`) }
rethrown(error) ==
  IF ~error.isError THEN Thrown(TRUE, <<"Compilation error: ", "Unknown error">>, TRUE)
  ELSE IF error.printable THEN Thrown(TRUE, <<"Compilation error: ">> \o error.message, TRUE)
  ELSE TypeError

compiled(e) ==
  IF e.threw THEN [ok |-> FALSE, error |-> rethrown(e.value)]
  ELSE IF e.fn = <<>> THEN [ok |-> FALSE, error |-> rethrown(NotAFunction)]
  ELSE [ok |-> TRUE, fn |-> e.fn[1]]

compileAlgorithm(code) == compiled(evaluated(code))

RECURSIVE sum(_)
sum(scores) == IF scores = <<>> THEN 0 ELSE scores[1] + sum(Tail(scores))

RECURSIVE max(_)
max(scores) ==
  IF Len(scores) = 1 THEN scores[1]
  ELSE IF scores[1] >= max(Tail(scores)) THEN scores[1] ELSE max(Tail(scores))

\* The numbers of a result, as fractions: a whole number is k / 1, NaN is
\* 0 / 0 and -Infinity is -1 / 0.
whole(k) == [num |-> k, den |-> 1]
NaN == [num |-> 0, den |-> 0]
MinusInfinity == [num |-> -1, den |-> 0]

\* a / b on numbers that are whole and not negative, with a = 0 when b = 0:
\* the fraction whose nearest double the division gives.
divided(a, b) == [num |-> a, den |-> b]

\* fraction * 100: the product of the rounded quotient and the factor, kept
\* as the two.
times(fraction, factor) == [fraction |-> fraction, factor |-> factor]

\* Math.round of a / b and of (a / b) * factor: halves go up, NaN stays.
roundDivided(a, b) == IF b = 0 THEN NaN ELSE whole(((2 * a) + b) \div (2 * b))
roundTimes(a, b, factor) == roundDivided(a * factor, b)

\* Math.max(...scores): -Infinity of no scores.
maxScore(scores) == IF scores = <<>> THEN MinusInfinity ELSE whole(max(scores))

\* The object returned by runBenchmark of HeadlessGame.ts.
engineResult(scores, survivals, numGames) ==
  [scores |-> scores,
   avgScore |-> divided(sum(scores), Len(scores)),
   maxScore |-> maxScore(scores),
   survivalRate |-> times(divided(survivals, numGames), 100)]

\* A result whose mean is left as it is.
runnerResultMeanUnrounded(scores, survivals, numGames) ==
  [scores |-> scores,
   avgScore |-> divided(sum(scores), Len(scores)),
   maxScore |-> maxScore(scores),
   survivalRate |-> roundTimes(survivals, numGames, 100)]

\* The object returned by runBenchmark of AlgorithmRunner.ts.
runnerResult(scores, survivals, numGames) ==
  [scores |-> scores,
   avgScore |-> roundDivided(sum(scores), Len(scores)),
   maxScore |-> maxScore(scores),
   survivalRate |-> roundTimes(survivals, numGames, 100)]

MaxGames == 3
GameCounts == 0 .. MaxGames
StartSeeds == {1, 2653940}

\* A call of one of the two runBenchmark functions, before its first
\* statement.  engines counts the engines constructed, progress lists the
\* calls of onProgress with the number of engines constructed by then.
benchmark(fn, code, numGames, startSeed, callback) ==
  [fn |-> fn, code |-> code, numGames |-> numGames, startSeed |-> startSeed,
   callback |-> callback, pc |-> IF fn = "runner" THEN "compile" ELSE "loop",
   algorithm |-> IF fn = "runner" THEN <<>> ELSE <<code.policy>>,
   i |-> 0, scores |-> <<>>, survivals |-> 0, engines |-> 0, progress |-> <<>>,
   result |-> <<>>, error |-> <<>>]

Codes ==
  [kind : {"function"}, policy : Policies]
    \cup [kind : SourceKinds \ {"function"}, policy : {"null"}]

Benchmarks ==
  {benchmark("engine", code, n, sd, FALSE) :
     code \in [kind : {"function"}, policy : Policies], n \in GameCounts, sd \in StartSeeds}
    \cup {benchmark("runner", code, n, 1, cb) :
            code \in Codes, n \in GameCounts, cb \in BOOLEAN}

BenchInit ==
  /\ bench \in Benchmarks
  /\ game = newGame(SeedOfTests, 0)
  /\ twin = game
  /\ calls = 0
  /\ invoked = FALSE
  /\ ret = <<>>
  /\ thrown = FALSE
  /\ op = "constructor"
  /\ pc = "idle"
  /\ runTicks = 0
  /\ unseeded = 0
  /\ slowSeen = FALSE
  /\ last = NoDecision
  /\ rnd = NoGenerator
  /\ held = NothingHeld
  /\ Apart

engineVars ==
  <<calls, invoked, ret, thrown, pc, runTicks, unseeded, twin, slowSeen, last, rnd, held,
    editor, controller, util, algorithm, dashboard>>

\* AlgorithmRunner.ts line 66: const algorithm = compileAlgorithm(code)
Compile ==
  /\ bench.pc = "compile"
  /\ \E c \in {compileAlgorithm(bench.code)} :
       bench' = IF c.ok THEN [bench EXCEPT !.pc = "loop", !.algorithm = <<c.fn>>]
                ELSE [bench EXCEPT !.pc = "threw", !.error = <<c.error>>]
  /\ op' = "compile"
  /\ UNCHANGED <<game, engineVars>>

\* The body of the loop up to the survivals count: a new engine with the
\* game's seed runs to completion.  An exception that leaves tick() leaves
\* runToCompletion() and runBenchmark with it.
gameSeed(b) == b.startSeed + b.i

counted(b, g) ==
  [b EXCEPT !.scores = Append(b.scores, g.score),
            !.survivals = IF g.deathReason = "timeout" THEN b.survivals + 1
                          ELSE b.survivals,
            !.engines = b.engines + 1,
            !.i = IF b.fn = "runner" THEN b.i ELSE b.i + 1,
            !.pc = IF b.fn = "runner" THEN "progress" ELSE "loop"]

aborted(b) ==
  [b EXCEPT !.engines = b.engines + 1, !.pc = "threw", !.error = <<TypeError>>]

BenchGame ==
  /\ bench.pc = "loop"
  /\ bench.i < bench.numGames
  /\ \E r \in {playedGame(bench.algorithm[1], gameSeed(bench))} :
       /\ game' = r.g
       /\ bench' = IF r.threw THEN aborted(bench) ELSE counted(bench, r.g)
  /\ op' = "game"
  /\ UNCHANGED engineVars

\* AlgorithmRunner.ts line 79: onProgress?.(i + 1, numGames), then i++
BenchProgress ==
  /\ bench.pc = "progress"
  /\ bench' = [bench EXCEPT
                 !.progress = IF bench.callback
                              THEN Append(bench.progress,
                                          [current |-> bench.i + 1,
                                           total |-> bench.numGames,
                                           engines |-> bench.engines])
                              ELSE bench.progress,
                 !.i = bench.i + 1,
                 !.pc = "loop"]
  /\ op' = "progress"
  /\ UNCHANGED <<game, engineVars>>

BenchReturn ==
  /\ bench.pc = "loop"
  /\ bench.i >= bench.numGames
  /\ bench' = [bench EXCEPT
                 !.pc = "returned",
                 !.result = IF bench.fn = "runner"
                            THEN <<runnerResult(bench.scores, bench.survivals,
                                                bench.numGames)>>
                            ELSE <<engineResult(bench.scores, bench.survivals,
                                                bench.numGames)>>]
  /\ op' = "return"
  /\ UNCHANGED <<game, engineVars>>

BenchNext == Compile \/ BenchGame \/ BenchProgress \/ BenchReturn

BenchSpec == BenchInit /\ [][BenchNext]_vars

(***************************************************************************)
(* The editor page: handleBenchmark compiles the text of the editor and    *)
(* plays NUM_GAMES games in animation frames, handleSubmit sends the       *)
(* result to the leaderboard.  The decision functions are those of         *)
(* Policies that end a game on its first tick.                             *)
(***************************************************************************)
NUM_GAMES == 10
TIME_PER_GAME == 3000
MaxEdits == 1
MaxSubmissions == 1

min(scores) == -max([k \in DOMAIN scores |-> -scores[k]])

\* The result object of handleBenchmark.
editorResult(scores) ==
  [scores |-> scores,
   avgScore |-> roundDivided(sum(scores), Len(scores)),
   maxScore |-> maxScore(scores),
   minScore |-> whole(min(scores))]

\* err instanceof Error ? err.message : 'Unknown error'
messageOf(error) == IF error.isError THEN error.message ELSE <<"Unknown error">>

EditorPolicies == {"null", "throwError", "throwSymbol", "back", "slow"}
EditorCodes ==
  [kind : {"function"}, policy : EditorPolicies]
    \cup [kind : SourceKinds \ {"function"}, policy : {"null"}]
Names == {"", "my snake"}

\* Milliseconds since the start of the game at which runFrame may run.
FrameTimes == {0, 16, TIME_PER_GAME}

\* The page before anything was run.
page(code, name) ==
  [code |-> code, algorithmName |-> name, benchmarkResult |-> <<>>,
   previousResult |-> <<>>, error |-> <<>>, isBenchmarking |-> FALSE,
   isSubmitting |-> FALSE, pc |-> "idle", algorithm |-> <<>>, gameNum |-> 0,
   elapsed |-> 0, frameCount |-> 0, scores |-> <<>>, requests |-> <<>>,
   submissionResult |-> <<>>, edits |-> 0]

EditorInit ==
  /\ \E code \in EditorCodes, name \in Names : editor = page(code, name)
  /\ game = newGame(SeedOfTests, 0)
  /\ twin = game
  /\ calls = 0
  /\ invoked = FALSE
  /\ ret = <<>>
  /\ thrown = FALSE
  /\ op = "constructor"
  /\ pc = "idle"
  /\ runTicks = 0
  /\ unseeded = 0
  /\ slowSeen = FALSE
  /\ last = NoDecision
  /\ rnd = NoGenerator
  /\ held = NothingHeld
  /\ bench = NoBenchmark
  /\ controller = NoController
  /\ util = NoCall
  /\ algorithm = NoAlgorithm
  /\ dashboard = NoDashboard

pageVars ==
  <<calls, invoked, ret, thrown, pc, runTicks, unseeded, twin, slowSeen, last, rnd, held,
    bench, controller, util, algorithm, dashboard>>

\* One frame for every millisecond.
targetFramesPerMs(elapsed) == IF elapsed > MAX_FRAMES THEN MAX_FRAMES ELSE elapsed

\* Math.min(MAX_FRAMES, Math.floor((elapsed / TIME_PER_GAME) * MAX_FRAMES * 1.5))
targetFrames(elapsed) ==
  IF (elapsed * MAX_FRAMES * 3) \div (TIME_PER_GAME * 2) > MAX_FRAMES THEN MAX_FRAMES
  ELSE (elapsed * MAX_FRAMES * 3) \div (TIME_PER_GAME * 2)

\* The frames of one runFrame: while (frameCount < targetFrames && !game.isOver())
batch(g, policy, frameCount, elapsed) ==
  IF frameCount < targetFrames(elapsed)
  THEN ticksOf([g |-> g, called |-> FALSE, threw |-> FALSE], decision(policy),
               targetFrames(elapsed) - frameCount)
  ELSE [g |-> g, called |-> FALSE, threw |-> FALSE]

\* catch (err) { setError(...) } finally { setIsBenchmarking(false); ... }
failed(e, error) ==
  [e EXCEPT !.error = <<messageOf(error)>>, !.isBenchmarking = FALSE, !.gameNum = 0,
            !.pc = "idle"]

\* The frame of the finished game is kept for its score.
framedKeepingFrame(e, g, frames, elapsed) ==
  IF g.gameOver \/ frames >= MAX_FRAMES \/ TIME_PER_GAME - elapsed <= 0
  THEN [e EXCEPT !.scores = Append(e.scores, g.frame), !.frameCount = frames,
                 !.elapsed = elapsed, !.pc = "pause"]
  ELSE [e EXCEPT !.frameCount = frames, !.elapsed = elapsed, !.pc = "frame"]

\* The end of runFrame: the game is finished and its score kept, or another
\* animation frame is asked for.
framed(e, g, frames, elapsed) ==
  IF g.gameOver \/ frames >= MAX_FRAMES \/ TIME_PER_GAME - elapsed <= 0
  THEN [e EXCEPT !.scores = Append(e.scores, g.score), !.frameCount = frames,
                 !.elapsed = elapsed, !.pc = "pause"]
  ELSE [e EXCEPT !.frameCount = frames, !.elapsed = elapsed, !.pc = "frame"]

\* new HeadlessGame(algorithm, gameNum + 1) and the first runFrame, which runs
\* inside the promise's executor: an exception of tick() rejects the promise
\* and is caught by handleBenchmark.
firstFrame(e, g, r, elapsed) ==
  IF r.threw THEN failed(e, TypeError)
  ELSE framed(e, r.g, IF r.g.frame > g.frame THEN r.g.frame - g.frame ELSE 0, elapsed)

startGame(e, gameNum, elapsed) ==
  \E g \in {newGame(Double(gameNum + 1), MAX_FRAMES)} :
    \E r \in {batch(g, e.algorithm[1], 0, elapsed)} :
       /\ game' = r.g
       /\ editor' = firstFrame([e EXCEPT !.gameNum = gameNum + 1], g, r, elapsed)

\* handleBenchmark up to its first await.
HandleBenchmark ==
  /\ editor.pc = "idle"
  /\ ~editor.isSubmitting
  /\ \E c \in {compileAlgorithm(editor.code)} :
       \E e \in {[editor EXCEPT !.error = <<>>,
                                !.previousResult = IF editor.benchmarkResult # <<>>
                                                   THEN editor.benchmarkResult
                                                   ELSE editor.previousResult,
                                !.benchmarkResult = <<>>, !.scores = <<>>,
                                !.gameNum = 0]} :
          IF c.ok
          THEN \E elapsed \in FrameTimes \ {TIME_PER_GAME} :
                 startGame([e EXCEPT !.algorithm = <<c.fn>>, !.isBenchmarking = TRUE],
                           0, elapsed)
          ELSE editor' = failed(e, c.error) /\ game' = game
  /\ op' = "handleBenchmark"
  /\ UNCHANGED pageVars

\* runFrame called by requestAnimationFrame: an exception of tick() is not
\* caught by anything, and the promise of the game is never resolved.
RunFrame ==
  /\ editor.pc = "frame"
  /\ \E elapsed \in {t \in FrameTimes : t > editor.elapsed} :
       \E r \in {batch(game, editor.algorithm[1], editor.frameCount, elapsed)} :
          /\ game' = r.g
          /\ editor' = IF r.threw THEN [editor EXCEPT !.pc = "hung", !.elapsed = elapsed]
                       ELSE framed(editor, r.g,
                                   editor.frameCount + (r.g.frame - game.frame), elapsed)
  /\ op' = "runFrame"
  /\ UNCHANGED pageVars

\* setTimeout(resolve, 400): the next game, or the result after the last one
\* and the placement preview, whose failure is only logged.
NextGame ==
  /\ editor.pc = "pause"
  /\ IF editor.gameNum < NUM_GAMES
     THEN \E elapsed \in FrameTimes \ {TIME_PER_GAME} :
            startGame([editor EXCEPT !.frameCount = 0, !.elapsed = 0], editor.gameNum,
                      elapsed)
     ELSE /\ editor' = [editor EXCEPT !.benchmarkResult = <<editorResult(editor.scores)>>,
                                      !.isBenchmarking = FALSE, !.gameNum = 0,
                                      !.frameCount = 0, !.elapsed = 0, !.pc = "idle"]
          /\ game' = game
  /\ op' = "nextGame"
  /\ UNCHANGED pageVars

\* POST /api/leaderboard: the checks of the route on the request.
accepted(request) ==
  /\ request.name # ""
  /\ request.avgScore.den = 1 /\ request.avgScore.num >= 0
  /\ request.avgScore.num <= 1000000

\* handleSubmit with the answer of the server: created, or an error.
HandleSubmit ==
  /\ editor.pc = "idle"
  /\ Len(editor.requests) < MaxSubmissions
  /\ IF editor.algorithmName = ""
     THEN editor' = [editor EXCEPT !.error = <<<<"Please enter a name for your algorithm">>>>]
     ELSE IF editor.benchmarkResult = <<>>
     THEN editor' = [editor EXCEPT !.error = <<<<"Please run a benchmark first">>>>]
     ELSE \E request \in {[name |-> editor.algorithmName, code |-> editor.code,
                           avgScore |-> editor.benchmarkResult[1].avgScore,
                           maxScore |-> editor.benchmarkResult[1].maxScore,
                           survivalRate |-> whole(100), gamesPlayed |-> whole(10)]} :
            \E created \in {accepted(request), FALSE} :
               editor' = [editor EXCEPT
                            !.requests = Append(editor.requests, request),
                            !.submissionResult = IF created THEN <<request>> ELSE <<>>,
                            !.error = IF created THEN <<>>
                                      ELSE <<<<"Failed to create submission">>>>]
  /\ op' = "handleSubmit"
  /\ UNCHANGED <<game, pageVars>>

\* The text of the editor is changed: onChange={setCode}.
Edit ==
  /\ editor.pc = "idle"
  /\ editor.edits < MaxEdits
  /\ \E code \in EditorCodes \ {editor.code} :
       editor' = [editor EXCEPT !.code = code, !.edits = editor.edits + 1]
  /\ op' = "setCode"
  /\ UNCHANGED <<game, pageVars>>

EditorNext == HandleBenchmark \/ RunFrame \/ NextGame \/ HandleSubmit \/ Edit

EditorSpec == EditorInit /\ [][EditorNext]_vars

(***************************************************************************)
(* The first benchmark of a page whose algorithm plays long games: one     *)
(* that never meets its body and one that throws, next to one that ends a  *)
(* game on its first tick.                                                 *)
(***************************************************************************)
VisualPolicies == {"diagonal", "right", "back", "throwSymbol"}

VisualInit ==
  /\ \E policy \in VisualPolicies :
       editor = page([kind |-> "function", policy |-> policy], "my snake")
  /\ game = newGame(SeedOfTests, 0)
  /\ twin = game
  /\ calls = 0
  /\ invoked = FALSE
  /\ ret = <<>>
  /\ thrown = FALSE
  /\ op = "constructor"
  /\ pc = "idle"
  /\ runTicks = 0
  /\ unseeded = 0
  /\ slowSeen = FALSE
  /\ last = NoDecision
  /\ rnd = NoGenerator
  /\ held = NothingHeld
  /\ bench = NoBenchmark
  /\ controller = NoController
  /\ util = NoCall
  /\ algorithm = NoAlgorithm
  /\ dashboard = NoDashboard

FirstBenchmark ==
  /\ editor.benchmarkResult = <<>>
  /\ editor.error = <<>>
  /\ HandleBenchmark

VisualNext == FirstBenchmark \/ RunFrame \/ NextGame

VisualSpec == VisualInit /\ [][VisualNext]_vars

(***************************************************************************)
(* GameController: an engine ticked by an interval timer.  timers are the  *)
(* intervals registered with the window, tickInterval the one the          *)
(* controller remembers (0 for null; the ids of the window are positive).  *)
(* onStateChange either only looks at the state or calls stop(); seen      *)
(* records what happened since the caller's last stop(): whether start()   *)
(* was not called since, whether that stop() found the controller stopped, *)
(* and whether a tick or a callback has happened.  trace lists the calls   *)
(* made by the last timer firing or reset(), each with the intervals       *)
(* registered when it was made, and ends counts the calls of onGameEnd     *)
(* since the game was made.                                                *)
(***************************************************************************)
MaxControllerTicks == 3
MaxStarts == 2
Speeds == {150, 50}
ControllerPolicies == {"right", "null", "throwSymbol"}
Callbacks == {"observe", "stop"}

NothingSeen == [stopped |-> FALSE, again |-> FALSE, ticked |-> FALSE, called |-> FALSE]

\* this.tickInterval = null without clearInterval
stopForgettingTimer(c) == [c EXCEPT !.tickInterval = 0]

\* stop()
stop(c) ==
  IF c.tickInterval # 0
  THEN [c EXCEPT !.timers = c.timers \ {c.tickInterval}, !.tickInterval = 0]
  ELSE c

\* start() without if (this.tickInterval) return
startUnguarded(c) ==
  [c EXCEPT !.tickInterval = c.nextId, !.timers = c.timers \cup {c.nextId},
            !.nextId = c.nextId + 1]

\* start()
start(c) ==
  IF c.tickInterval # 0 THEN c
  ELSE [c EXCEPT !.tickInterval = c.nextId, !.timers = c.timers \cup {c.nextId},
                 !.nextId = c.nextId + 1]

\* setSpeed(speed)
setSpeed(c, speed) ==
  IF c.tickInterval # 0 THEN start(stop([c EXCEPT !.speed = speed]))
  ELSE [c EXCEPT !.speed = speed]

\* isRunning()
isRunning(c) == c.tickInterval # 0

\* A call of stop() by the caller, and a tick or a callback after one.
stopCalled(c) ==
  [stop(c) EXCEPT !.seen = [stopped |-> TRUE, again |-> c.tickInterval = 0,
                            ticked |-> FALSE, called |-> FALSE]]
ticking(c) == [c EXCEPT !.seen.ticked = c.seen.stopped]
calling(c) == [c EXCEPT !.seen.called = c.seen.stopped]

noted(c, name) == [c EXCEPT !.trace = Append(c.trace, [call |-> name, timers |-> c.timers])]

\* onStateChange(state)
onStateChange(c) ==
  IF c.cb = "stop" THEN stopCalled(calling(noted(c, "onStateChange")))
  ELSE calling(noted(c, "onStateChange"))

\* onGameEnd(score)
onGameEnd(c) == calling([noted(c, "onGameEnd") EXCEPT !.ends = c.ends + 1])

\* if (state.gameOver) { this.onGameEnd(state.score); this.stop() }
endedBeforeStop(c, g) == IF g.gameOver THEN stop(noted(onGameEnd(c), "stop")) ELSE c

\* if (state.gameOver) { this.stop(); this.onGameEnd(state.score) }
ended(c, g) == IF g.gameOver THEN onGameEnd(stop(noted(c, "stop"))) ELSE c

\* The function given to setInterval; an exception of tick() ends it.
interval(c, r) ==
  IF r.threw THEN ticking([c EXCEPT !.trace = <<>>])
  ELSE ended(onStateChange(ticking([c EXCEPT !.trace = <<>>])), r.g)

\* new GameController(code, onStateChange, onGameEnd, seed, speed)
ControllerInit ==
  /\ \E policy \in ControllerPolicies, cb \in Callbacks, seed \in {SeedOfTests, SeedTwoFoods} :
       /\ controller = [policy |-> policy, cb |-> cb, seed |-> seed, speed |-> 150,
                        tickInterval |-> 0, timers |-> {}, nextId |-> 1,
                        seen |-> NothingSeen, trace |-> <<>>, ends |-> 0]
       /\ game = newGame(seed, MAX_FRAMES)
  /\ twin = game
  /\ calls = 0
  /\ invoked = FALSE
  /\ ret = <<>>
  /\ thrown = FALSE
  /\ op = "constructor"
  /\ pc = "idle"
  /\ runTicks = 0
  /\ unseeded = 0
  /\ slowSeen = FALSE
  /\ last = NoDecision
  /\ rnd = NoGenerator
  /\ held = NothingHeld
  /\ bench = NoBenchmark
  /\ editor = NoEditor
  /\ util = NoCall
  /\ algorithm = NoAlgorithm
  /\ dashboard = NoDashboard

controllerVars ==
  <<calls, invoked, ret, thrown, pc, runTicks, unseeded, twin, slowSeen, last, rnd, held,
    bench, editor, util, algorithm, dashboard>>

Start ==
  /\ controller.nextId <= MaxStarts
  /\ controller' = [start(controller) EXCEPT !.seen = NothingSeen]
  /\ op' = "start"
  /\ UNCHANGED <<game, controllerVars>>

\* stop() and destroy()
Stop ==
  /\ controller' = stopCalled(controller)
  /\ op' = "stop"
  /\ UNCHANGED <<game, controllerVars>>

\* reset(newSeed)
ResetController ==
  /\ \E newSeed \in {SeedOfTests, SeedTwoFoods} :
       /\ controller' = onStateChange([stop(controller) EXCEPT !.seed = newSeed,
                                                                !.trace = <<>>, !.ends = 0])
       /\ game' = newGame(newSeed, MAX_FRAMES)
  /\ op' = "reset"
  /\ UNCHANGED controllerVars

SetSpeed ==
  /\ controller.nextId <= MaxStarts
  /\ \E speed \in Speeds \ {controller.speed} :
       controller' = setSpeed(controller, speed)
  /\ op' = "setSpeed"
  /\ UNCHANGED <<game, controllerVars>>

\* A registered interval fires.
Fire ==
  /\ controller.timers # {}
  /\ game.gameOver \/ game.frame < MaxControllerTicks
  /\ \E r \in {tick(game, decision(controller.policy))} :
       /\ game' = r.g
       /\ controller' = interval(controller, r)
  /\ op' = "interval"
  /\ UNCHANGED controllerVars

ControllerNext == Start \/ Stop \/ ResetController \/ SetSpeed \/ Fire

ControllerSpec == ControllerInit /\ [][ControllerNext]_vars

(***************************************************************************)
(* Calls of the functions of utils.ts: util holds the function, its        *)
(* arguments and, after the call, what it returned.                        *)
(***************************************************************************)
abs(v) == IF v < 0 THEN -v ELSE v
sign(v) == IF v < 0 THEN -1 ELSE IF v > 0 THEN 1 ELSE 0
least(a, b) == IF a <= b THEN a ELSE b

\* The differences keep their signs.
distanceSigned(a, b) ==
  least(a.x - b.x, GRID_SIZE - (a.x - b.x))
    + least(a.y - b.y, GRID_SIZE - (a.y - b.y))
    + least(a.z - b.z, GRID_SIZE - (a.z - b.z))

\* distance(a, b)
distance(a, b) ==
  least(abs(a.x - b.x), GRID_SIZE - abs(a.x - b.x))
    + least(abs(a.y - b.y), GRID_SIZE - abs(a.y - b.y))
    + least(abs(a.z - b.z), GRID_SIZE - abs(a.z - b.z))

\* A difference of more than one step keeps its sign.
unwrappedStep(d) == IF abs(d) > 1 THEN sign(d) ELSE d

\* if (Math.abs(dx) > 1) dx = -Math.sign(dx)
step(d) == IF abs(d) > 1 THEN -sign(d) ELSE d

\* normalizeDirection(from, to)
normalizeDirection(from, to) ==
  Pos(step(to.x - from.x), step(to.y - from.y), step(to.z - from.z))

\* ALL_DIRECTIONS in the order of the array.
DirectionOrder ==
  <<Pos(1, 0, 0), Pos(-1, 0, 0), Pos(0, 1, 0), Pos(0, -1, 0), Pos(0, 0, 1), Pos(0, 0, -1)>>

moved(pos, dir) == wrapPosition(Pos(pos.x + dir.x, pos.y + dir.y, pos.z + dir.z))

\* getNeighbors(pos)
getNeighbors(pos) == [k \in 1 .. 6 |-> moved(pos, DirectionOrder[k])]

MaxCoord == 40
GridCoords == -HALF_GRID .. (HALF_GRID - 1)
Cells == {Pos(x, y, z) : x \in GridCoords, y \in GridCoords, z \in GridCoords}
EdgeCoords == {-HALF_GRID, 1 - HALF_GRID, -1, 0, 1, HALF_GRID - 2, HALF_GRID - 1}
EdgeCells == {Pos(x, y, z) : x \in EdgeCoords, y \in EdgeCoords, z \in EdgeCoords}
CornerCells ==
  {Pos(x, y, z) : x \in {-HALF_GRID, 0, HALF_GRID - 1}, y \in {-HALF_GRID, 0, HALF_GRID - 1},
                  z \in {-HALF_GRID, 0, HALF_GRID - 1}}

\* Integer positions in and far outside the grid.
WidePositions ==
  {Pos(x, yz[1], yz[2]) :
     x \in -MaxCoord .. MaxCoord,
     yz \in {<<0, 0>>, <<-9, 8>>, <<23, -24>>, <<MaxCoord, -MaxCoord>>}}

call(fn, args) == [fn |-> fn, args |-> args, result |-> <<>>]

WrapCalls == {call("wrapPosition", <<p>>) : p \in WidePositions}
DistanceCalls == {call("distance", <<a, b>>) : a \in CornerCells, b \in EdgeCells}
DirectionCalls ==
  {call("normalizeDirection", <<p, getNeighbors(p)[k]>>) : p \in Cells, k \in 1 .. 6}

MAX_NODES == 500

NoPath == [found |-> FALSE, path |-> <<>>]
Path(path) == [found |-> TRUE, path |-> path]

\* The loop over getNeighbors(current.pos), from the k-th neighbour on: a
\* neighbour neither visited nor an obstacle is marked and queued with its
\* path.  s holds the queue and the visited keys, which a Set keeps in the
\* order they were added in.
RECURSIVE expanded(_, _, _, _)
expanded(s, current, obstacles, k) ==
  IF k > 6 THEN s
  ELSE IF posKey(getNeighbors(current.pos)[k]) \in (s.visited \cup obstacles)
  THEN expanded(s, current, obstacles, k + 1)
  ELSE expanded([s EXCEPT
                   !.queue = Append(s.queue,
                                    [pos |-> getNeighbors(current.pos)[k],
                                     path |-> Append(current.path,
                                                     getNeighbors(current.pos)[k])]),
                   !.visited = s.visited \cup {posKey(getNeighbors(current.pos)[k])},
                   !.order = Append(s.order, posKey(getNeighbors(current.pos)[k]))],
                current, obstacles, k + 1)

\* The goal is not looked for beyond the depth.
visitPastDepth(current, goal, maxDepth) ==
  IF posEqual(current.pos, goal) THEN "return" ELSE "expand"

\* What the loop does with the entry taken from the queue.
visit(current, goal, maxDepth) ==
  IF Len(current.path) > maxDepth THEN "break"
  ELSE IF posEqual(current.pos, goal) THEN "return"
  ELSE "expand"

\* One turn with the cap tested as visited.size >= MAX_NODES.
turnCappedAtLimit(s, goal, obstacles, maxDepth) ==
  IF s.queue = <<>> \/ Cardinality(s.visited) >= MAX_NODES
  THEN [s EXCEPT !.done = TRUE, !.result = NoPath]
  ELSE IF visit(Head(s.queue), goal, maxDepth) = "break"
  THEN [s EXCEPT !.done = TRUE, !.result = NoPath]
  ELSE IF visit(Head(s.queue), goal, maxDepth) = "return"
  THEN [s EXCEPT !.done = TRUE, !.result = Path(Head(s.queue).path)]
  ELSE expanded([s EXCEPT !.queue = Tail(s.queue)], Head(s.queue), obstacles, 1)

\* One turn of while (queue.length > 0) { ... }: the search ends without a
\* path, ends with one, or goes on with the neighbours queued.
turn(s, goal, obstacles, maxDepth) ==
  IF s.queue = <<>> \/ Cardinality(s.visited) > MAX_NODES
  THEN [s EXCEPT !.done = TRUE, !.result = NoPath]
  ELSE IF visit(Head(s.queue), goal, maxDepth) = "break"
  THEN [s EXCEPT !.done = TRUE, !.result = NoPath]
  ELSE IF visit(Head(s.queue), goal, maxDepth) = "return"
  THEN [s EXCEPT !.done = TRUE, !.result = Path(Head(s.queue).path)]
  ELSE expanded([s EXCEPT !.queue = Tail(s.queue)], Head(s.queue), obstacles, 1)

\* n turns at most (by halving, to keep the evaluation shallow).
RECURSIVE turns(_, _, _, _, _)
turns(s, goal, obstacles, maxDepth, n) ==
  IF s.done \/ n = 0 THEN s
  ELSE IF n = 1 THEN turn(s, goal, obstacles, maxDepth)
  ELSE turns(turns(s, goal, obstacles, maxDepth, n \div 2), goal, obstacles, maxDepth,
             n - (n \div 2))

\* Every turn but the last takes an entry from the queue, every entry was
\* marked visited when it was queued, and a turn that finds more than
\* MAX_NODES marks is the last: MAX_NODES + 8 turns end every search.
MaxTurns == MAX_NODES + 8

\* The search of findPathBFS when its loop is left.
searched(from, goal, obstacles, maxDepth) ==
  turns([queue |-> <<[pos |-> from, path |-> <<>>]>>, visited |-> {posKey(from)},
         order |-> <<posKey(from)>>, done |-> FALSE, result |-> NoPath],
        goal, obstacles, maxDepth, MaxTurns)

\* findPathBFS(start, goal, obstacles, maxDepth); obstacles is a set of keys.
findPathBFS(from, goal, obstacles, maxDepth) ==
  searched(from, goal, obstacles, maxDepth).result

\* createCollisionSet(positions)
createCollisionSet(positions) == {posKey(positions[k]) : k \in DOMAIN positions}

\* Searches from two cells, one of them in a corner of the grid, for goals
\* up to five steps away, through no obstacles, past one cell, out of the
\* body of a new snake and for a goal that is walled in.
Offsets ==
  {Pos(0, 0, 0), Pos(1, 0, 0), Pos(2, 1, 0), Pos(1, 1, 1), Pos(3, 0, 0), Pos(0, -2, 2),
   Pos(2, 2, 1)}
Depths == {0, 1, 3, 30}
box(pos) == {posKey(getNeighbors(pos)[k]) : k \in 1 .. 6}
ObstacleSets(from, goal) ==
  {{}, {posKey(moved(from, Pos(1, 0, 0)))},
   createCollisionSet([k \in 1 .. 3 |-> moved(from, Pos(1 - k, 0, 0))]),
   box(goal)}

PathCalls ==
  {call("findPathBFS", <<from, moved(from, offset), obstacles, maxDepth>>) :
     from \in {Pos(0, 0, 0), Pos(HALF_GRID - 1, HALF_GRID - 1, HALF_GRID - 1)},
     offset \in Offsets,
     obstacles \in UNION {ObstacleSets(Pos(0, 0, 0), moved(Pos(0, 0, 0), o)) : o \in Offsets}
                     \cup UNION {ObstacleSets(Pos(HALF_GRID - 1, HALF_GRID - 1, HALF_GRID - 1),
                                              moved(Pos(HALF_GRID - 1, HALF_GRID - 1,
                                                        HALF_GRID - 1), o)) : o \in Offsets},
     maxDepth \in Depths}

UtilInit ==
  /\ game = newGame(SeedOfTests, 0)
  /\ twin = game
  /\ calls = 0
  /\ invoked = FALSE
  /\ ret = <<>>
  /\ thrown = FALSE
  /\ op = "constructor"
  /\ pc = "idle"
  /\ runTicks = 0
  /\ unseeded = 0
  /\ slowSeen = FALSE
  /\ last = NoDecision
  /\ rnd = NoGenerator
  /\ held = NothingHeld
  /\ bench = NoBenchmark
  /\ editor = NoEditor
  /\ controller = NoController
  /\ algorithm = NoAlgorithm
  /\ dashboard = NoDashboard
  /\ util \in WrapCalls \cup DistanceCalls \cup DirectionCalls \cup PathCalls

utilVars ==
  <<game, calls, invoked, ret, thrown, op, pc, runTicks, unseeded, twin, slowSeen, last,
    rnd, held, bench, editor, controller, algorithm, dashboard>>

WrapPosition ==
  /\ util.fn = "wrapPosition" /\ util.result = <<>>
  /\ util' = [util EXCEPT !.result = <<wrapPosition(util.args[1])>>]
  /\ UNCHANGED utilVars

Distance ==
  /\ util.fn = "distance" /\ util.result = <<>>
  /\ util' = [util EXCEPT !.result = <<distance(util.args[1], util.args[2])>>]
  /\ UNCHANGED utilVars

NormalizeDirection ==
  /\ util.fn = "normalizeDirection" /\ util.result = <<>>
  /\ util' = [util EXCEPT !.result = <<normalizeDirection(util.args[1], util.args[2])>>]
  /\ UNCHANGED utilVars

FindPathBFS ==
  /\ util.fn = "findPathBFS" /\ util.result = <<>>
  /\ util' = [util EXCEPT !.result = <<findPathBFS(util.args[1], util.args[2],
                                                   util.args[3], util.args[4])>>]
  /\ UNCHANGED utilVars

UtilNext == WrapPosition \/ Distance \/ NormalizeDirection \/ FindPathBFS

UtilSpec == UtilInit /\ [][UtilNext]_vars

(***************************************************************************)
(* Dashboard.tsx: the playback loop of the selected algorithm.  game is    *)
(* gameRef.current.  The interval fires every TickMs; fired counts its     *)
(* firings, so the next one is due at TickMs * (fired + 1), and pending    *)
(* lists the times at which the restarts asked of setTimeout are due.      *)
(* ended counts the games a tick has ended, sum adds up their scores and   *)
(* scheduled counts the calls of setTimeout.  stale is the totalScore of   *)
(* the render the loop was made in, selected the avgScore of the selected  *)
(* submission, if there is one.                                            *)
(***************************************************************************)
TickMs == 150
RestartMs == 800
RunsPerRound == 10
MaxFirings == 10

DashboardPolicies == {"rightTwice", "null", "right"}

\* function algorithm(ctx) { return ctx.frame < 3 ? {x: 1, y: 0, z: 0} : null }
\* and the decision functions that do the same at every call.
decisionAt(policy, g) ==
  IF policy = "rightTwice"
  THEN IF contextOf([g EXCEPT !.frame = g.frame + 1]).frame < 3
       THEN Returns(Pos(1, 0, 0), 0) ELSE ReturnsNull(0)
  ELSE decision(policy)

\* Math.round(avgScore - selected.avgScore), avgScore = (totalScore + score) / 10
roundedDelta(total, score, avgScore) ==
  ((total + score) - RunsPerRound * avgScore + (RunsPerRound \div 2)) \div RunsPerRound

\* setRunCount(prev => ...): the new count, and the delta shown after ten.
runCounted(d, score) ==
  IF d.runCount + 1 >= RunsPerRound
  THEN [d EXCEPT !.runCount = 0,
                 !.scoreDelta = IF d.selected = <<>> THEN d.scoreDelta
                                ELSE <<roundedDelta(d.stale, score, d.selected[1])>>]
  ELSE [d EXCEPT !.runCount = d.runCount + 1]

\* if (state.gameOver) { ... }: the score is recorded and a restart asked for.
recorded(d, state) ==
  IF state.gameOver
  THEN [runCounted([d EXCEPT !.totalScore = d.totalScore + state.score], state.score)
          EXCEPT !.pending = Append(d.pending, TickMs * (d.fired + 1) + RestartMs),
                 !.scheduled = d.scheduled + 1]
  ELSE d

\* The page after the effect that starts the loop has run.
DashboardInit ==
  /\ \E policy \in DashboardPolicies, seed \in {SeedTwoFoods, SeedOfTests},
        stale \in {0, 20}, selected \in {<<>>, <<15>>} :
       /\ game = newGame(seed, MAX_FRAMES)
       /\ dashboard = [policy |-> policy, runCount |-> 0, totalScore |-> 0,
                       scoreDelta |-> <<>>, prevScore |-> 0, paused |-> FALSE,
                       fired |-> 0, pending |-> <<>>, stale |-> stale,
                       selected |-> selected, ended |-> 0, sum |-> 0, scheduled |-> 0]
  /\ twin = game
  /\ calls = 0
  /\ invoked = FALSE
  /\ ret = <<>>
  /\ thrown = FALSE
  /\ op = "constructor"
  /\ pc = "idle"
  /\ runTicks = 0
  /\ unseeded = 0
  /\ slowSeen = FALSE
  /\ last = NoDecision
  /\ rnd = NoGenerator
  /\ held = NothingHeld
  /\ bench = NoBenchmark
  /\ editor = NoEditor
  /\ controller = NoController
  /\ util = NoCall
  /\ algorithm = NoAlgorithm

dashboardVars ==
  <<calls, invoked, ret, thrown, pc, runTicks, unseeded, twin, slowSeen, last, rnd, held,
    bench, editor, controller, util, algorithm>>

\* The page after a firing whose tick returned state.
fired(d, g, state) ==
  [recorded([d EXCEPT !.prevScore = IF state.score > d.prevScore THEN state.score
                                    ELSE d.prevScore], state)
     EXCEPT !.fired = d.fired + 1,
            !.ended = IF g.gameOver \/ ~state.gameOver THEN d.ended ELSE d.ended + 1,
            !.sum = IF g.gameOver \/ ~state.gameOver THEN d.sum ELSE d.sum + state.score]

\* The interval fires: nothing while paused, else a tick and its record.
Interval ==
  /\ dashboard.fired < MaxFirings
  /\ \A i \in DOMAIN dashboard.pending :
       dashboard.pending[i] > TickMs * (dashboard.fired + 1)
  /\ IF dashboard.paused
     THEN /\ dashboard' = [dashboard EXCEPT !.fired = dashboard.fired + 1]
          /\ game' = game
     ELSE \E r \in {tick(game, decisionAt(dashboard.policy, game))} :
            /\ game' = r.g
            /\ dashboard' = fired(dashboard, game, r.g)
  /\ op' = "interval"
  /\ UNCHANGED dashboardVars

\* A restart is due: a new game with a new seed.
Restart ==
  /\ \E i \in DOMAIN dashboard.pending :
       i = 1 /\ dashboard.pending[i] < TickMs * (dashboard.fired + 1)
  /\ \E newSeed \in {SeedTwoFoods, SeedOfTests} : game' = newGame(newSeed, MAX_FRAMES)
  /\ dashboard' = [dashboard EXCEPT !.pending = Tail(dashboard.pending), !.prevScore = 0]
  /\ op' = "restart"
  /\ UNCHANGED dashboardVars

\* handleToggleFPV to the first person view: the loop pauses for a countdown.
ToggleFPV ==
  /\ ~dashboard.paused
  /\ dashboard' = [dashboard EXCEPT !.paused = TRUE]
  /\ op' = "handleToggleFPV"
  /\ UNCHANGED <<game, dashboardVars>>

\* The countdown is over, or the view is switched back.
CountdownOver ==
  /\ dashboard.paused
  /\ dashboard' = [dashboard EXCEPT !.paused = FALSE]
  /\ op' = "countdown"
  /\ UNCHANGED <<game, dashboardVars>>

DashboardNext == Interval \/ Restart \/ ToggleFPV \/ CountdownOver

DashboardSpec == DashboardInit /\ [][DashboardNext]_vars

(***************************************************************************)
(* Searches for goals FarSteps steps from the start, in the free grid and  *)
(* past the body of a new snake: far enough for the cap on visited cells.  *)
(***************************************************************************)
FarSteps == 6

FarCalls ==
  {call("findPathBFS", <<Pos(0, 0, 0), goal, obstacles, 30>>) :
     goal \in {c \in Cells : distance(Pos(0, 0, 0), c) = FarSteps},
     obstacles \in {{}, createCollisionSet(Tail(InitialSnake))}}

FarInit ==
  /\ game = newGame(SeedOfTests, 0)
  /\ twin = game
  /\ calls = 0
  /\ invoked = FALSE
  /\ ret = <<>>
  /\ thrown = FALSE
  /\ op = "constructor"
  /\ pc = "idle"
  /\ runTicks = 0
  /\ unseeded = 0
  /\ slowSeen = FALSE
  /\ last = NoDecision
  /\ rnd = NoGenerator
  /\ held = NothingHeld
  /\ bench = NoBenchmark
  /\ editor = NoEditor
  /\ controller = NoController
  /\ algorithm = NoAlgorithm
  /\ dashboard = NoDashboard
  /\ util \in FarCalls

FarSpec == FarInit /\ [][FindPathBFS]_vars

(***************************************************************************)
(* An engine steered by hand: every tick the decision function returns at  *)
(* once one of the six unit directions.  The games are a new one whose     *)
(* first two foods lie ahead of the snake, and the game of LateGames from  *)
(* seed 1 played on along the cycle: the grid became full on the tick of   *)
(* frame 4133771, the food is since on the body at (7,7,7), and after      *)
(* frame 4134554 the head is cell 3866 of the cycle, (4,7,7), three cells  *)
(* before the food, with the tail just ahead of it.                        *)
(***************************************************************************)
MaxSteeredTicks == 5

FullGridGame ==
  [snake |-> arc(3866, GridCells), food |-> Pos(7, 7, 7), score |-> 40930,
   frame |-> 4134554, gameOver |-> FALSE, deathReason |-> null,
   rng |-> Double(1659512064), maxFrames |-> 5000000]

SteerInit ==
  /\ game \in {newGame(SeedTwoFoods, MAX_FRAMES), FullGridGame}
  /\ twin = game
  /\ calls = 0
  /\ invoked = FALSE
  /\ ret = <<>>
  /\ thrown = FALSE
  /\ op = "constructor"
  /\ pc = "idle"
  /\ runTicks = 0
  /\ unseeded = 0
  /\ slowSeen = FALSE
  /\ Unused

\* game.tick() with a decision function that returns a unit direction.
SteeredTick ==
  /\ pc = "idle"
  /\ calls < MaxSteeredTicks
  /\ ~game.gameOver
  /\ \E out \in {Returns(d, 0) : d \in ALL_DIRECTIONS} :
       \E r \in {tick(game, out)} :
           /\ game' = r.g
           /\ calls' = IF r.called THEN calls + 1 ELSE calls
           /\ invoked' = r.called
           /\ thrown' = r.threw
           /\ ret' = IF r.threw THEN <<>> ELSE <<getState(r.g)>>
           /\ last' = IF r.called THEN <<out>> ELSE NoDecision
  /\ op' = "tick"
  /\ UNCHANGED <<pc, runTicks, unseeded, twin, slowSeen, rnd, held, bench>>
  /\ UNCHANGED apart

SteerSpec == SteerInit /\ [][SteeredTick]_vars

(***************************************************************************)
(* The built-in algorithms.  A call returns at once: the time a call takes *)
(* is the engine's concern.  ctx is the context tick() builds.             *)
(***************************************************************************)
BuiltIns == {"demoAlgorithm", "greedyAlgorithm", "smartAlgorithm"}

\* for (const dir of ALL_DIRECTIONS) { if (!bodySet.has(posKey(...))) return dir; }
\* return null;
RECURSIVE anyValidMove(_, _, _)
anyValidMove(head, bodySet, k) ==
  IF k > 6 THEN ReturnsNull(0)
  ELSE IF posKey(moved(head, DirectionOrder[k])) \notin bodySet
  THEN Returns(DirectionOrder[k], 0)
  ELSE anyValidMove(head, bodySet, k + 1)

\* The directions of demoAlgorithm, by phase.
demoDirections ==
  <<Pos(1, 0, 0), Pos(0, 1, 0), Pos(-1, 0, 0), Pos(0, -1, 0), Pos(0, 0, 1), Pos(0, 0, -1)>>

\* const phase = Math.floor(frame / 8) % 6
phase(frame) == (frame \div 8) % 6

preferredOrAny(head, bodySet, preferred) ==
  IF posKey(moved(head, preferred)) \notin bodySet
  THEN Returns(preferred, 0)
  ELSE anyValidMove(head, bodySet, 1)

\* demoAlgorithm(ctx)
demoAlgorithm(ctx) ==
  preferredOrAny(ctx.snake.value[1], createCollisionSet(Tail(ctx.snake.value)),
                 demoDirections[phase(ctx.frame) + 1])

\* snake.slice(1).some(seg => posEqual(seg, newHead))
hitsBody(snake, newHead) == \E i \in 2 .. Len(snake) : posEqual(snake[i], newHead)

\* The loop of greedyAlgorithm from the k-th direction on; best is the index
\* of bestDir, 0 while bestDir is null and bestDist is Infinity.
RECURSIVE closest(_, _, _, _)
closest(snake, food, k, best) ==
  IF k > 6 THEN best
  ELSE IF hitsBody(snake, moved(snake[1], DirectionOrder[k]))
  THEN closest(snake, food, k + 1, best)
  ELSE IF best = 0
          \/ distance(moved(snake[1], DirectionOrder[k]), food)
               < distance(moved(snake[1], DirectionOrder[best]), food)
  THEN closest(snake, food, k + 1, k)
  ELSE closest(snake, food, k + 1, best)

returned(best) == IF best = 0 THEN ReturnsNull(0) ELSE Returns(DirectionOrder[best], 0)

\* greedyAlgorithm(ctx)
greedyAlgorithm(ctx) == returned(closest(ctx.snake.value, ctx.food.value, 1, 0))

\* const futureSnake = [nextPosToFood, ...snake]; if (!willEat) futureSnake.pop();
futureSnake(snake, nextPos, willEat) ==
  IF willEat THEN <<nextPos>> \o snake ELSE ButLast(<<nextPos>> \o snake)

\* snake.slice(1, -1)
inner(snake) == ButLast(Tail(snake))

\* findPathBFS(nextPosToFood, futureTail, createCollisionSet(futureSnake.slice(1, -1)), 20)
canReachTail(future) ==
  findPathBFS(future[1], future[Len(future)], createCollisionSet(inner(future)), 20)

leads(path) == path.found /\ Len(path.path) > 0

\* The safety check of the step towards the food.
safe(snake, food, pathToFood) ==
  /\ leads(pathToFood)
  /\ leads(canReachTail(futureSnake(snake, pathToFood.path[1],
                                      posEqual(pathToFood.path[1], food))))

\* Fallback: follow tail; last resort: any valid move.
followTail(snake, pathToTail) ==
  IF leads(pathToTail)
  THEN Returns(normalizeDirection(snake[1], pathToTail.path[1]), 0)
  ELSE anyValidMove(snake[1], createCollisionSet(Tail(snake)), 1)

towardsFood(snake, food, pathToFood) ==
  IF safe(snake, food, pathToFood)
  THEN Returns(normalizeDirection(snake[1], pathToFood.path[1]), 0)
  ELSE followTail(snake,
                  findPathBFS(snake[1], snake[Len(snake)],
                              createCollisionSet(inner(snake)), 20))

\* smartAlgorithm(ctx)
smartAlgorithm(ctx) ==
  towardsFood(ctx.snake.value, ctx.food.value,
              findPathBFS(ctx.snake.value[1], ctx.food.value,
                          createCollisionSet(Tail(ctx.snake.value)), 30))

builtIn(name, ctx) ==
  CASE name = "demoAlgorithm" -> demoAlgorithm(ctx)
    [] name = "greedyAlgorithm" -> greedyAlgorithm(ctx)
    [] name = "smartAlgorithm" -> smartAlgorithm(ctx)

(***************************************************************************)
(* Games constructed with a built-in algorithm, and games steered by hand  *)
(* in whose states the built-in algorithms are called with the context of  *)
(* the next tick, as the tests of the algorithms call them.                *)
(***************************************************************************)
MaxBuiltInTicks == 24
MaxHandTicks == 2

ByHand == "by hand"

BuiltInInit ==
  /\ game \in {newGame(SeedTwoFoods, MAX_FRAMES), newGame(SeedOfTests, MAX_FRAMES),
               FullGridGame}
  /\ algorithm \in BuiltIns \cup {ByHand}
  /\ game = FullGridGame => algorithm = ByHand
  /\ dashboard = NoDashboard
  /\ twin = game
  /\ calls = 0
  /\ invoked = FALSE
  /\ ret = <<>>
  /\ thrown = FALSE
  /\ op = "constructor"
  /\ pc = "idle"
  /\ runTicks = 0
  /\ unseeded = 0
  /\ slowSeen = FALSE
  /\ last = NoDecision
  /\ rnd = NoGenerator
  /\ held = NothingHeld
  /\ bench = NoBenchmark
  /\ editor = NoEditor
  /\ controller = NoController
  /\ util = NoCall

\* The context of the next tick of a running game.
nextContext(g) == contextOf([g EXCEPT !.frame = g.frame + 1])

decided(limit, out) ==
  /\ pc = "idle"
  /\ calls < limit
  /\ ~game.gameOver
  /\ \E r \in {tick(game, out)} :
       /\ game' = r.g
       /\ calls' = IF r.called THEN calls + 1 ELSE calls
       /\ invoked' = r.called
       /\ thrown' = r.threw
       /\ ret' = IF r.threw THEN <<>> ELSE <<getState(r.g)>>
       /\ last' = IF r.called THEN <<out>> ELSE NoDecision
  /\ op' = "tick"
  /\ util' = NoCall
  /\ UNCHANGED <<pc, runTicks, unseeded, twin, slowSeen, rnd, held, bench, editor,
                 controller, algorithm, dashboard>>

\* game.tick() of new HeadlessGame(demoAlgorithm | greedyAlgorithm | smartAlgorithm, seed)
BuiltInTick ==
  /\ algorithm \in BuiltIns
  /\ decided(MaxBuiltInTicks, builtIn(algorithm, nextContext(game)))

\* game.tick() with a decision function that returns a unit direction.
HandTick ==
  /\ algorithm = ByHand
  /\ \E d \in ALL_DIRECTIONS : decided(MaxHandTicks, Returns(d, 0))

\* demoAlgorithm(ctx), greedyAlgorithm(ctx), smartAlgorithm(ctx)
Decide ==
  /\ algorithm = ByHand
  /\ ~game.gameOver
  /\ \E name \in BuiltIns :
       util' = [fn |-> name, args |-> <<nextContext(game)>>,
                result |-> <<builtIn(name, nextContext(game))>>]
  /\ UNCHANGED utilVars

BuiltInNext == BuiltInTick \/ HandTick \/ Decide

BuiltInSpec == BuiltInInit /\ [][BuiltInNext]_vars

(***************************************************************************)
(* The properties.                                                         *)
(***************************************************************************)
\* A step of tick(), and one that moved the snake: the game was running and
\* still is.
TickStep == op' = "tick"
Moved == TickStep /\ ~game.gameOver /\ ~game'.gameOver

\* C1: once the game is over, every further tick() is a no-op: it does not
\* invoke the decision function, it changes nothing of the game, and the
\* snapshot it returns is the one of the game as it ended.
TickAfterGameOverIsNoOp ==
  [][(TickStep /\ game.gameOver) =>
       /\ game' = game
       /\ ~invoked'
       /\ calls' = calls
       /\ ~thrown'
       /\ ret' = <<getState(game)>>]_vars

\* A tick made after the decision function ended the game: the reason says
\* the function was called, the last tick did not call it.
TickedAfterGameOver ==
  /\ op = "tick"
  /\ game.gameOver
  /\ game.deathReason = "no valid move"
  /\ ~invoked
  /\ ret = <<getState(game)>>

\* C2: in every reachable state the food cell is none of the snake's body
\* cells, also when the snake fills most or all of the grid.
FoodNotOnBody == \A i \in 1..Len(game.snake) : ~posEqual(game.snake[i], game.food)

\* The snake fills the grid.
GridFull == Len(game.snake) = GRID_SIZE * GRID_SIZE * GRID_SIZE

\* C3: in every reachable state no two elements of the body are the same
\* cell, whatever directions the decision function returns.
NoDuplicateCells ==
  \A i, j \in 1..Len(game.snake) : i # j => ~posEqual(game.snake[i], game.snake[j])

\* A grown snake was steered into itself and the move was refused.
CollisionRefused ==
  /\ op = "tick"
  /\ game.deathReason = "self collision"
  /\ Len(game.snake) = Len(InitialSnake) + 1

\* C4: tick() never throws: whatever the decision function throws is caught
\* inside tick() and recorded as the reason the game ended.
TickNeverThrows == ~thrown /\ (game.gameOver => game.deathReason # null)

\* C5, as amended: runToCompletion() makes at most max(1, maxFrames) calls of
\* tick(), the game is over once it has made that many, and it is over when
\* the call returns.
Limit(maxFrames) == IF maxFrames < 1 THEN 1 ELSE maxFrames

Congruent(to, from, d) == (to - from - d) % GRID_SIZE = 0

HeadMovedBy(to, from, d) ==
  /\ Congruent(to.x, from.x, d.x)
  /\ Congruent(to.y, from.y, d.y)
  /\ Congruent(to.z, from.z, d.z)

GrowsExactlyOnFood ==
  [][Moved =>
       /\ Len(game'.snake) =
            Len(game.snake) + (IF posEqual(game'.snake[1], game.food) THEN 1 ELSE 0)
       /\ \E d \in Directions : HeadMovedBy(game'.snake[1], game.snake[1], d)
       /\ Tail(game'.snake) = SubSeq(game.snake, 1, Len(game'.snake) - 1)]_vars

\* The snake has eaten twice and the game runs on.
GrownByTwo ==
  /\ op = "tick"
  /\ ~game.gameOver
  /\ Len(game.snake) = Len(InitialSnake) + 2

\* C8: within one game the score is a non-negative integer; a tick adds 10
\* exactly when it puts the new head on the food and leaves it unchanged
\* otherwise.
ScoreAddsTenOnFood ==
  [][TickStep =>
       /\ game.score \in Nat
       /\ game'.score \in Nat
       /\ game'.score =
            IF Moved /\ posEqual(game'.snake[1], game.food)
            THEN game.score + 10
            ELSE game.score]_vars

\* The score after two foods.
ScoredTwice == op = "tick" /\ game.score = 20

\* C9: every tick() on a running game adds exactly 1 to the frame counter,
\* the tick that ends the game included, and the counter changes in no
\* other way than by that and by reset().
FrameCountsTicks ==
  [][/\ (TickStep /\ ~game.gameOver) => game'.frame = game.frame + 1
     /\ (game'.frame # game.frame) =>
          \/ TickStep /\ ~game.gameOver
          \/ op' = "reset" /\ game'.frame = 0]_vars

\* A second tick ended the game and was counted.
EndingTickCounted ==
  /\ op = "tick"
  /\ game.gameOver
  /\ game.deathReason = "self collision"
  /\ game.frame = 2

\* C10: in every reachable state every body cell and the food cell have
\* their three coordinates in -8..7.
InGrid(pos) ==
  /\ pos.x \in -HALF_GRID..(HALF_GRID - 1)
  /\ pos.y \in -HALF_GRID..(HALF_GRID - 1)
  /\ pos.z \in -HALF_GRID..(HALF_GRID - 1)

AllInsideGrid ==
  /\ \A i \in 1..Len(game.snake) : InGrid(game.snake[i])
  /\ InGrid(game.food)

\* C11: next() is in [0,1), that is, the seed it divides by 0x7fffffff is
\* below 0x7fffffff, and so nextInt(min, max) returns r with min <= r <= max.
NextIntInRange ==
  rnd.draws > 0 =>
    /\ Low31(rnd.seed.m) < Mask31
    /\ rnd.min <= rnd.value
    /\ rnd.value <= rnd.max

\* A draw at the top of its range: 7 from nextInt(-8, 7).
DrewTheMaximum == rnd.draws > 0 /\ rnd.min = -HALF_GRID /\ rnd.value = rnd.max

\* The last operation was the tick that made the game's first call of the
\* decision function: with the default maxFrames, the game's first tick.
FirstTickDecided == op = "tick" /\ invoked /\ calls = 1 /\ last # NoDecision

\* The engine's body, food and score are those the decision function saw.
NotMoved ==
  /\ game.snake = held.ctx[1].snake.value
  /\ game.food = held.ctx[1].food.value
  /\ game.score = held.ctx[1].score

\* C12, as amended: when the decision function returns null in the first
\* tick of a game with the default maxFrames, and the call is not measured
\* above 100 ms, the game is over with reason 'no valid move' and frame 1,
\* and body, food and score are the initial ones.
NullEndsFirstTickUnlessSlow ==
  (FirstTickDecided /\ last[1].kind = "null" /\ last[1].elapsed <= 1000) =>
    /\ game.gameOver
    /\ game.deathReason = "no valid move"
    /\ game.frame = 1
    /\ game.snake = InitialSnake
    /\ game.food = twin.food
    /\ game.score = 0

\* C12 as stated: whatever time the call took.
NullEndsFirstTick ==
  (FirstTickDecided /\ last[1].kind = "null") =>
    /\ game.gameOver
    /\ game.deathReason = "no valid move"
    /\ game.frame = 1
    /\ game.snake = InitialSnake
    /\ game.food = twin.food
    /\ game.score = 0

\* The first tick got null at once.
NullReturnedAtOnce ==
  /\ FirstTickDecided
  /\ last[1] = ReturnsNull(0)
  /\ game.maxFrames = MAX_FRAMES
  /\ game.deathReason = "no valid move"

\* C13: a tick whose call of the decision function returned after more
\* than 100 ms ends the game with the reason 'algorithm too slow', also
\* when a valid direction was returned, and does not move the snake.
SlowReasons ==
  {"algorithm too slow (" \o ToString(n) \o "ms per frame)" : n \in 100..300}

SlowCallEndsGame ==
  (op = "tick" /\ last # NoDecision /\ last[1].kind # "throw" /\ last[1].elapsed > 1000) =>
    /\ game.gameOver
    /\ game.deathReason \in SlowReasons
    /\ NotMoved

\* A valid direction came after 250.6 ms, in the second tick.
SlowDirectionRefused ==
  /\ op = "tick"
  /\ last = <<Returns(Pos(1, 0, 0), 2506)>>
  /\ game.frame = 2
  /\ game.deathReason = "algorithm too slow (251ms per frame)"

\* C14, as amended: when the decision function returns (-1,0,0) in the
\* first tick, within 100 ms, the game ends in that tick with the reason
\* 'self collision': the new head is the second body cell, which stays.
TurningBackCollidesAtOnce ==
  (FirstTickDecided /\ last[1] = Returns(Pos(-1, 0, 0), 0)) =>
    /\ game.gameOver
    /\ game.deathReason = "self collision"
    /\ game.frame = 1
    /\ game.snake = InitialSnake

\* C14 as stated: the first tick does not end the game.
TurningBackSurvivesFirstTick ==
  (FirstTickDecided /\ last[1] = Returns(Pos(-1, 0, 0), 0)) => ~game.gameOver

\* The first tick turned back.
TurnedBack ==
  /\ FirstTickDecided
  /\ last[1] = Returns(Pos(-1, 0, 0), 0)
  /\ game.maxFrames = MAX_FRAMES

\* C15: a write to the context given to the decision function or to a
\* snapshot returned by tick() or getState() changes nothing of the engine,
\* so every later snapshot is what it would have been without the write.
WritesDoNotReachEngine == [][op' = "write" => game' = game]_vars

\* The decision function has overwritten the food of its context.
ContextFoodOverwritten ==
  /\ op = "write"
  /\ ~game.gameOver
  /\ held.ctx # <<>>
  /\ held.ctx[1].food.value.x = 5
  /\ game.food.x # 5

Finished == bench.pc \in {"returned", "threw"}

\* The end states of numGames games of the benchmark's decision function,
\* game i on a new engine with the seed first + i, i from 0.
gamesFrom(first) ==
  [k \in 1 .. bench.numGames |-> playedGame(bench.code.policy, first + (k - 1)).g]

survived(games) == {k \in DOMAIN games : games[k].deathReason = "timeout"}

ScoresOf(games) ==
  /\ Len(bench.result[1].scores) = bench.numGames
  /\ \A k \in DOMAIN games : bench.result[1].scores[k] = games[k].score

\* mean, maximum and share of survivals, on one game at least
AggregateOf(games) ==
  /\ bench.result[1].avgScore.den = bench.numGames
  /\ bench.result[1].avgScore.num = sum([k \in DOMAIN games |-> games[k].score])
  /\ \E k \in DOMAIN games : bench.result[1].maxScore = whole(games[k].score)
  /\ \A k \in DOMAIN games : bench.result[1].maxScore.num >= games[k].score
  /\ bench.result[1].survivalRate.factor = 100
  /\ bench.result[1].survivalRate.fraction.den = bench.numGames
  /\ bench.result[1].survivalRate.fraction.num = Cardinality(survived(games))

EngineAggregateRight ==
  \A games \in {gamesFrom(bench.startSeed)} :
     /\ ScoresOf(games)
     /\ bench.numGames >= 1 => AggregateOf(games)

\* C17: a call runBenchmark(algorithm, numGames, startSeed) of HeadlessGame.ts
\* returns, and its result has one score per game, game i being played on a
\* new engine with the seed startSeed + i, avgScore the unrounded mean of the
\* scores, maxScore their maximum and survivalRate 100 times the share of the
\* games that ended by the frame limit.
BenchmarkReturnsAggregate ==
  (bench.fn = "engine" /\ Finished) =>
     (bench.pc = "returned" /\ EngineAggregateRight)

\* C17, the call does not return: the exception of the first game leaves it.
EngineBenchmarkAborted ==
  /\ bench.fn = "engine" /\ bench.pc = "threw"
  /\ bench.numGames = MaxGames /\ bench.engines = 1 /\ bench.scores = <<>>

\* C18: whatever the decision function does, both benchmark runners play all
\* numGames games and return one score per game; a game that fails does not
\* keep the later games from being played nor the aggregate from being made.
BenchmarkPlaysAllGames ==
  (Finished /\ bench.algorithm # <<>>) =>
     /\ bench.pc = "returned"
     /\ bench.engines = bench.numGames
     /\ Len(bench.result[1].scores) = bench.numGames

\* C18, the batch of the compiled source is given up in its first game.
BatchAbortedByFirstGame ==
  /\ bench.fn = "runner" /\ bench.pc = "threw" /\ bench.algorithm = <<"throwSymbol">>
  /\ bench.numGames = MaxGames /\ bench.engines = 1 /\ bench.progress = <<>>
  /\ game.gameOver /\ game.deathReason = null

\* The k-th call of onProgress is (k, numGames), made when k engines have
\* been constructed and the k-th game is over.
ProgressCalls ==
  /\ Len(bench.progress) = bench.numGames
  /\ \A k \in 1 .. Len(bench.progress) :
        bench.progress[k] = [current |-> k, total |-> bench.numGames, engines |-> k]

\* The result is the one of the games played on seeds 1, 2, ..., which no
\* callback takes part in.
RunnerResultOf(games) ==
  bench.result[1] =
    runnerResult([k \in DOMAIN games |-> games[k].score], Cardinality(survived(games)),
                 bench.numGames)

\* C19: runBenchmark of AlgorithmRunner.ts, given a callback, calls it
\* numGames times, the k-th call with (k, numGames) after game k is over and
\* before game k + 1 starts, and it returns the same result with a callback
\* as without one.
ProgressCalledAfterEachGame ==
  (bench.fn = "runner" /\ Finished /\ bench.algorithm # <<>>) =>
     /\ bench.pc = "returned"
     /\ bench.callback => ProgressCalls
     /\ \A games \in {gamesFrom(1)} : RunnerResultOf(games)

\* C19, the callback was never called though games were asked for.
NoProgressReported ==
  /\ bench.fn = "runner" /\ bench.callback /\ bench.pc = "threw"
  /\ bench.algorithm # <<>> /\ bench.numGames >= 1 /\ bench.progress = <<>>

\* C20: compileAlgorithm(code) fails with an error whose message starts with
\* 'Compilation error:' when evaluating the source raises or when the source
\* defines no function named algorithm, and returns that function otherwise;
\* after a failed compile no engine has been created and no tick executed.
CompileFailsWithCompilationError ==
  (bench.fn = "runner" /\ bench.pc # "compile") =>
     IF bench.code.kind = "function"
     THEN bench.algorithm = <<bench.code.policy>>
     ELSE /\ bench.pc = "threw"
          /\ bench.error[1].message[1] = "Compilation error: "
          /\ bench.engines = 0
          /\ game = twin

\* C20, the compiler is left by an error that is no compilation error.
CompileLeftByTypeError ==
  /\ bench.fn = "runner" /\ bench.pc = "threw" /\ bench.code.kind = "throwsSymbolMessage"
  /\ bench.error = <<TypeError>> /\ bench.engines = 0 /\ op = "compile"

(***************************************************************************)
(* The editor page.                                                        *)
(***************************************************************************)
BenchmarkEnded == editor.pc = "idle" /\ op \in {"handleBenchmark", "nextGame"}
ZeroScores == [k \in 1 .. NUM_GAMES |-> 0]
CompileFails == ~compileAlgorithm(editor.code).ok
ReturnsNoMove == editor.code = [kind |-> "function", policy |-> "null"]

\* handleSubmit sends the request exactly when there are a name and a result.
SubmitStep ==
  op' = "handleSubmit" =>
     IF editor.algorithmName # "" /\ editor.benchmarkResult # <<>>
     THEN /\ Len(editor'.requests) = Len(editor.requests) + 1
          /\ Last(editor'.requests).code = editor.code
          /\ Last(editor'.requests).avgScore = editor.benchmarkResult[1].avgScore
     ELSE /\ editor'.requests = editor.requests
          /\ editor'.error # <<>>
          /\ editor.benchmarkResult = <<>> /\ editor.algorithmName # "" =>
                editor'.error = <<<<"Please run a benchmark first">>>>

\* C21 (corrected): an algorithm that returns no move on its first tick gets
\* a benchmark result of NUM_GAMES scores of 0 and no error; a source that
\* fails to compile gets an error, no benchmark result and no engine; and
\* handleSubmit sends the text with the result's scores when there are a name
\* and a result, and refuses without a result.
ImmediateFailureAndSubmission ==
  [][/\ (BenchmarkEnded /\ ReturnsNoMove)' =>
          (editor.benchmarkResult = <<editorResult(ZeroScores)>> /\ editor.error = <<>>)'
     /\ (BenchmarkEnded /\ CompileFails)' =>
          (editor.benchmarkResult = <<>> /\ editor.error # <<>>)' /\ game' = game
     /\ SubmitStep]_vars

\* C21 as stated: an algorithm that fails at once, by a compilation error or
\* by returning no move on its first tick, has a benchmark result when its
\* benchmark is over.
ImmediateFailureGetsResult ==
  (BenchmarkEnded /\ (CompileFails \/ ReturnsNoMove)) => editor.benchmarkResult # <<>>

\* C21, the algorithm that returns no move was submitted with its scores.
NoMoveSubmitted ==
  /\ op = "handleSubmit" /\ ReturnsNoMove /\ editor.edits = 0
  /\ editor.benchmarkResult = <<editorResult(ZeroScores)>>
  /\ editor.submissionResult # <<>>
  /\ editor.submissionResult[1].avgScore = whole(0)

(***************************************************************************)
(* GameController.                                                         *)
(***************************************************************************)
\* stop() on a stopped controller changes neither the controller nor the game.
StopOnStopped ==
  (op' = "stop" /\ controller.tickInterval = 0) =>
     /\ [controller' EXCEPT !.seen = controller.seen] = controller
     /\ game' = game

\* After stop() and before start() no interval is registered and none is
\* remembered, and there has been no tick.
NoTimerNoTick ==
  /\ controller.seen.stopped =>
        controller.tickInterval = 0 /\ controller.timers = {} /\ ~controller.seen.ticked
  /\ controller.timers \subseteq {controller.tickInterval}

\* The callbacks after stop(): onStateChange of reset(), and the onGameEnd of
\* the interval in whose onStateChange stop() was called.
CallbackAfterStop ==
  (controller'.seen.called /\ ~controller.seen.called) =>
     \/ op' = "reset"
     \/ op' = "interval" /\ controller.timers # {} /\ controller.cb = "stop" /\ game'.gameOver

\* C22 (corrected): stop() on a stopped controller, or a second time in a
\* row, changes nothing; after stop() and until start() no interval is
\* registered and no tick happens, and no callback except the onStateChange
\* of reset() and the onGameEnd of the interval that was running when stop()
\* was called.
StopIsIdempotent ==
  [][StopOnStopped /\ NoTimerNoTick' /\ CallbackAfterStop]_vars

\* C22 as stated: after stop() and until start() there is no timer, no tick
\* and no callback.
NothingAfterStop ==
  controller.seen.stopped =>
     /\ controller.timers = {}
     /\ ~controller.seen.ticked
     /\ ~controller.seen.called

\* C22, stop() was called on a controller stopped after it had ticked.
StoppedTwice ==
  /\ op = "stop" /\ controller.seen.stopped /\ controller.seen.again
  /\ controller.nextId > 1 /\ game.frame >= 1 /\ ~game.gameOver

\* C37: after any start(), stop(), setSpeed(), reset() and timer firing at
\* most one interval is registered and isRunning() is true exactly when one
\* is; start() on a running controller registers nothing, and setSpeed()
\* leaves a stopped controller stopped.
AtMostOneInterval ==
  [][/\ Cardinality(controller'.timers) <= 1
     /\ isRunning(controller') <=> controller'.timers # {}
     /\ (op' = "start" /\ isRunning(controller)) =>
           /\ controller'.timers = controller.timers
           /\ controller'.tickInterval = controller.tickInterval
     /\ (op' = "setSpeed" /\ ~isRunning(controller)) =>
           ~isRunning(controller') /\ controller'.timers = {}]_vars

\* C37, start() was called on a controller that had ticked since its start.
StartedWhileRunning ==
  /\ op = "start" /\ isRunning(controller)
  /\ controller.nextId = 2 /\ game.frame >= 1

\* C37, setSpeed() was called on a controller stopped after a start.
SpeedSetWhileStopped ==
  /\ op = "setSpeed" /\ ~isRunning(controller)
  /\ controller.nextId > 1 /\ controller.speed = 50

\* The names of the calls of the last firing, in their order.
Called == [i \in DOMAIN controller.trace |-> controller.trace[i].call]

\* C38, the order: a firing whose tick returns a game-over snapshot calls
\* onStateChange, then stop(), then onGameEnd, and no interval is registered
\* when onGameEnd is called; a firing whose game goes on calls onStateChange
\* only.
StateChangeStopGameEnd ==
  [][(op' = "interval" /\ ~tick(game, decision(controller.policy)).threw) =>
       IF game'.gameOver
       THEN /\ Called' = <<"onStateChange", "stop", "onGameEnd">>
            /\ controller'.trace[3].timers = {}
            /\ controller'.ends = controller.ends + 1
       ELSE Called' = <<"onStateChange">> /\ controller'.ends = controller.ends]_vars

\* C38 as stated: onGameEnd is called at most once for each game, whatever
\* start(), stop() and setSpeed() calls follow.
GameEndsOnce == controller.ends <= 1

\* C38, start() after the end of a game let the next firing call onGameEnd
\* for the same game again.
GameEndedTwice ==
  /\ op = "interval" /\ game.gameOver
  /\ Called = <<"onStateChange", "stop", "onGameEnd">>
  /\ controller.ends = 2 /\ controller.nextId = 3

(***************************************************************************)
(* utils.ts.                                                               *)
(***************************************************************************)
Returned(fn) == util.fn = fn /\ util.result # <<>>

DistanceSymmetricZeroIffSame ==
  Returned("distance") =>
     /\ InGrid(util.args[1]) /\ InGrid(util.args[2])
     /\ util.result[1] = distance(util.args[2], util.args[1])
     /\ util.result[1] >= 0
     /\ util.result[1] = 0 <=> util.args[1] = util.args[2]

\* C24, the distance between opposite corners goes around the grid.
DistanceAroundGrid ==
  /\ Returned("distance")
  /\ util.args = <<Pos(-8, -8, -8), Pos(7, 7, 7)>> /\ util.result[1] = 3

\* The cells reached from the cells of S by k steps at most, none onto an
\* obstacle.
RECURSIVE within(_, _, _)
within(S, obstacles, k) ==
  IF k = 0 THEN S
  ELSE within(S \cup {n \in {getNeighbors(c)[j] : c \in S, j \in 1 .. 6} :
                        posKey(n) \notin obstacles},
              obstacles, k - 1)

Neighbour(p, q) == \E j \in 1 .. 6 : getNeighbors(p)[j] = q

PathFrom(path, from, goal, obstacles, maxDepth) ==
  /\ \A k \in DOMAIN path : path[k] # from /\ posKey(path[k]) \notin obstacles
  /\ path = <<>> <=> from = goal
  /\ path # <<>> =>
        /\ Neighbour(from, path[1])
        /\ \A k \in 2 .. Len(path) : Neighbour(path[k - 1], path[k])
        /\ path[Len(path)] = goal
        /\ goal \notin within({from}, obstacles, Len(path) - 1)
  /\ Len(path) <= maxDepth

\* C25: a path returned by findPathBFS(start, goal, obstacles, maxDepth) does
\* not hold start, is empty exactly when start is goal, begins at a wrapped
\* neighbour of start, steps from neighbour to neighbour, ends at goal, holds
\* no obstacle, is not longer than maxDepth, and no shorter path from start
\* to goal avoids the obstacles.
PathIsShortestWithinDepth ==
  (Returned("findPathBFS") /\ util.result[1].found) =>
     PathFrom(util.result[1].path, util.args[1], util.args[2], util.args[3], util.args[4])

\* C25, a path from the corner of the grid goes around an obstacle.
PathAroundObstacle ==
  /\ Returned("findPathBFS") /\ util.result[1].found
  /\ util.args[1] = Pos(7, 7, 7) /\ util.args[2] = Pos(-6, 7, 7)
  /\ util.args[3] = {posKey(Pos(-8, 7, 7))}
  /\ Len(util.result[1].path) = 5

\* C26: for an in-grid p and each of its six wrapped neighbours q,
\* normalizeDirection(p, q) is a unit direction d, one axis +1 or -1 and the
\* others 0, with wrapPosition(p + d) = q.
NormalizedDirectionIsUnitStep ==
  Returned("normalizeDirection") =>
     /\ util.result[1] \in ALL_DIRECTIONS
     /\ moved(util.args[1], util.result[1]) = util.args[2]

\* C26, the neighbour is across the edge of the grid.
DirectionAcrossEdge ==
  /\ Returned("normalizeDirection")
  /\ util.args = <<Pos(7, 0, -8), Pos(7, 0, 7)>> /\ util.result[1] = Pos(0, 0, -1)

(***************************************************************************)
(* The engine, again.                                                      *)
(***************************************************************************)
ReasonIffOver(snapshot) == snapshot.gameOver <=> snapshot.deathReason # null

OnlyResetRevives == (game.gameOver /\ ~game'.gameOver) => op' = "reset"

\* C27: in every snapshot the engine returns gameOver is true exactly when
\* deathReason is not null, and gameOver goes from true to false only by
\* reset().
GameOverIffDeathReason ==
  [][/\ ret' # <<>> => ReasonIffOver(ret'[1])
     /\ OnlyResetRevives]_vars

\* C27, a snapshot of a game that is over and has no reason.
OverWithoutReason ==
  /\ op = "tick" /\ ret # <<>>
  /\ ret[1].gameOver /\ ret[1].deathReason = null

\* A tick of a running game whose decision function returned a direction in
\* time, the cell it steps to, and the cells of the body.
Steered == op' = "tick" /\ ~game.gameOver /\ invoked' /\ last' # NoDecision
Target == newHeadOf(game.snake[1], last'[1].dir)
OnBody(cell, body) == \E i \in 1 .. Len(body) : body[i] = cell

Collided ==
  /\ game'.gameOver /\ game'.deathReason = "self collision"
  /\ game'.snake = game.snake /\ game'.food = game.food /\ game'.score = game.score

\* C28: on a tick whose new head cell is not the food cell, stepping onto the
\* cell of the tail does not end the game, the tail leaving it in the same
\* tick, while stepping onto any other body cell ends it with
\* 'self collision' and body, food and score as they were; on a tick whose
\* new head cell is the food cell the tail cell is an obstacle as well.
TailCellIsFreeUnlessEating ==
  [][Steered =>
       /\ (Target # game.food /\ Target = Last(game.snake)
             /\ ~OnBody(Target, ButLast(game.snake))) =>
            /\ ~game'.gameOver
            /\ game'.snake = <<Target>> \o ButLast(game.snake)
       /\ (Target # game.food /\ OnBody(Target, ButLast(game.snake))) => Collided
       /\ (Target = game.food /\ OnBody(Target, game.snake)) => Collided]_vars

\* C28, the head has stepped onto the cell the tail was on, around a square.
SteppedOntoTail ==
  /\ op = "tick" /\ ~game.gameOver /\ calls = 4
  /\ game.snake = <<Pos(0, 0, 0), Pos(0, 1, 0), Pos(1, 1, 0), Pos(1, 0, 0)>>
  /\ game.score = ScoreIncrement

\* The tick of a running game on which the frame counter reaches the limit.
LimitTick == op' = "tick" /\ ~game.gameOver /\ game.frame + 1 >= game.maxFrames

\* C29 (corrected): the frame limit is looked at before the decision function
\* is called: the tick on which the frame counter reaches maxFrames ends the
\* game with 'timeout' and calls no decision function, so that a game calls
\* it at most max(1, maxFrames) - 1 times and a game ended by the frame limit
\* has frame = max(1, maxFrames).
FrameLimitPrecedesDecision ==
  [][/\ LimitTick => (~invoked' /\ game'.gameOver /\ game'.deathReason = "timeout")
     /\ calls' <= Limit(game'.maxFrames) - 1
     /\ game'.deathReason = "timeout" => game'.frame = Limit(game'.maxFrames)]_vars

\* C29 as stated: a game ended by the frame limit has frame = maxFrames and
\* has called the decision function at most maxFrames - 1 times.
TimeoutAtMaxFrames ==
  game.deathReason = "timeout" =>
     (game.frame = game.maxFrames /\ calls <= game.maxFrames - 1)

\* C29, a game that called the decision function on every frame but the last.
DecidedUpToLimit ==
  /\ op = "tick" /\ ~invoked /\ game.deathReason = "timeout"
  /\ game.maxFrames = MaxFramesCap /\ game.frame = MaxFramesCap
  /\ calls = MaxFramesCap - 1

\* The cell a decision leads to and the engine's obstacle set for the tick
\* of that context.
TargetOf(ctx, out) == newHeadOf(ctx.snake.value[1], out.dir)
ObstaclesOf(ctx, out) ==
  bodyToCheck([snake |-> ctx.snake.value], posEqual(TargetOf(ctx, out), ctx.food.value))

Avoids(ctx, out) ==
  \/ out.kind = "null"
  \/ /\ out.kind = "direction"
     /\ out.dir \in ALL_DIRECTIONS
     /\ ~OnBody(TargetOf(ctx, out), ObstaclesOf(ctx, out))

FoodOffBody(ctx) == ~OnBody(ctx.food.value, ctx.snake.value)

\* C30, in the states where the food is not on the body.
BuiltInsAvoidObstaclesOffBody ==
  (util # NoCall /\ FoodOffBody(util.args[1])) => Avoids(util.args[1], util.result[1])

\* C30: in every reachable engine state each built-in algorithm returns null
\* or a unit direction whose target cell is outside the engine's obstacle set
\* for that tick, and a game driven by a built-in algorithm never ends with
\* 'self collision'.
BuiltInsAvoidObstacles ==
  /\ util # NoCall => Avoids(util.args[1], util.result[1])
  /\ algorithm \in BuiltIns => game.deathReason # "self collision"

\* C30, smartAlgorithm follows its tail onto the cell that holds the food.
SmartStepsOntoFoodOnTail ==
  /\ util # NoCall
  /\ util.fn = "smartAlgorithm"
  /\ util.result[1].kind = "direction"
  /\ TargetOf(util.args[1], util.result[1]) = util.args[1].food.value
  /\ OnBody(TargetOf(util.args[1], util.result[1]),
            ObstaclesOf(util.args[1], util.result[1]))

\* POST /api/manual: const expectedScore = (length - 3) * 10
expectedScore(length) == (length - 3) * 10

\* C31: in every reachable engine state the score is ten times the number
\* of cells the body has grown beyond its first three, the score the
\* manual-score endpoint expects of that length.
ScoreIsTenPerGrownCell ==
  /\ game.score = ScoreIncrement * (Len(game.snake) - Len(InitialSnake))
  /\ game.score = expectedScore(Len(game.snake))

\* C31, a game that ate twice.
AteTwice == op = "tick" /\ game.score = 2 * ScoreIncrement /\ Len(game.snake) = 5

\* The snapshots of the engine as constructed and as constructed anew from
\* a seed given to reset().
ConstructionSnapshots ==
  {getState(twin)} \cup {getState(newGame(seed, game.maxFrames)) : seed \in ResetSeeds}

\* C32: reset() without a seed returns the engine to the snapshot it had
\* immediately after construction, food position included.
UnseededResetRestoresConstruction ==
  (op = "reset" /\ unseeded > 0) => getState(game) \in ConstructionSnapshots

\* C32, a reset() without a seed that restored all but the food.
UnseededResetMovesFood ==
  /\ op = "reset"
  /\ unseeded > 0
  /\ [getState(game) EXCEPT !.food = twin.food] = getState(twin)
  /\ game.food # twin.food

\* A tick that got a direction from the decision function within the time
\* limit, and the cell head + direction, wrapped.
Applied ==
  /\ op' = "tick" /\ ~game.gameOver /\ invoked' /\ last' # NoDecision
  /\ last'[1].kind = "direction"
  /\ ~tooSlow(last'[1].elapsed)
Literal ==
  wrapPosition(Pos(game.snake[1].x + last'[1].dir.x, game.snake[1].y + last'[1].dir.y,
                   game.snake[1].z + last'[1].dir.z))

\* C33: a direction that leaves the head on its own cell after wrapping ends
\* the game with 'self collision', never with 'no valid move'; every other
\* integer direction, unit or not, is applied as newHead = wrap(head +
\* direction): the head is on that cell after the tick, or that cell is in
\* the body checked and the game ends with 'self collision'.
DirectionAppliedLiterally ==
  [][Applied =>
       /\ Literal = game.snake[1] => Collided
       /\ game'.deathReason # "no valid move"
       /\ ~game'.gameOver => game'.snake[1] = Literal
       /\ game'.gameOver =>
            /\ Collided
            /\ OnBody(Literal, bodyToCheck(game, posEqual(Literal, game.food)))]_vars

\* C33, the direction (16,0,0) has ended a game.
FullTurnCollided ==
  /\ op = "tick" /\ invoked /\ last # NoDecision
  /\ last[1] = Returns(Pos(GRID_SIZE, 0, 0), 0)
  /\ game.gameOver /\ game.deathReason = "self collision"

\* A jump of nine cells and one has been made.
Jumped ==
  /\ op = "tick" /\ last # NoDecision /\ last[1] = Returns(Pos(9, 1, 0), 0)
  /\ ~game.gameOver /\ game.frame = 1 /\ game.snake[1] = Pos(-7, 1, 0)

\* The results of the two runBenchmark functions on the games played on the
\* seeds 1, 2, ..., and the equality of two of their numbers.
EngineOn(games) ==
  engineResult([k \in DOMAIN games |-> games[k].score], Cardinality(survived(games)),
               bench.numGames)
Equal(a, b) == a.num * b.den = b.num * a.den /\ (a.den = 0 <=> b.den = 0)
RunnerReturned == bench.fn = "runner" /\ bench.pc = "returned" /\ bench.numGames >= 1

\* Math.round of the engine's mean and survival rate.
RoundedOf(e) ==
  /\ bench.result[1].scores = e.scores
  /\ Equal(bench.result[1].maxScore, e.maxScore)
  /\ bench.result[1].avgScore = roundDivided(e.avgScore.num, e.avgScore.den)
  /\ bench.result[1].survivalRate =
       roundTimes(e.survivalRate.fraction.num, e.survivalRate.fraction.den,
                  e.survivalRate.factor)

SameOf(e) ==
  /\ bench.result[1].scores = e.scores
  /\ Equal(bench.result[1].maxScore, e.maxScore)
  /\ Equal(bench.result[1].avgScore, e.avgScore)
  /\ Equal(bench.result[1].survivalRate,
           divided(e.survivalRate.fraction.num * e.survivalRate.factor,
                   e.survivalRate.fraction.den))
Recorded == editor'.pc = "pause" /\ editor.pc # "pause"

\* C35: whatever the times at which the animation frames run, the visual
\* benchmark records the score of a game only when the game is over, and the
\* score recorded for game k is the final score of a new engine with seed k
\* run to completion: the time budget of a game never cuts it short.
ScoreRecordedWhenOver ==
  [][Recorded =>
       /\ game'.gameOver
       /\ editor'.scores = Append(IF editor.pc = "idle" THEN <<>> ELSE editor.scores,
                                  game'.score)
       /\ Len(editor'.scores) = editor'.gameNum
       /\ game' = playedGame(editor'.algorithm[1], editor'.gameNum).g]_vars

\* C35, a game that scored and was played to the frame limit in the frame
\* that ran when its time was up.
PlayedOutWhenTimeWasUp ==
  /\ editor.pc = "pause"
  /\ editor.elapsed = TIME_PER_GAME
  /\ editor.frameCount = MAX_FRAMES
  /\ game.deathReason = "timeout"
  /\ editor.scores = <<ScoreIncrement>>

\* The search of the call, the place of the goal among the cells marked
\* visited, and whether the goal can be reached within maxDepth steps.
SearchOf == searched(util.args[1], util.args[2], util.args[3], util.args[4])
MarkedAmongFirst(s, n) ==
  \E i \in 1 .. least(n, Len(s.order)) : s.order[i] = posKey(util.args[2])
Reachable ==
  /\ posKey(util.args[2]) \notin util.args[3]
  /\ util.args[2] \in within({util.args[1]}, util.args[3], least(util.args[4], FarSteps + 1))

\* C36 (corrected): findPathBFS returns a path whenever the goal is
\* reachable avoiding obstacles within maxDepth steps and no more than 500
\* cells are marked visited by the time the goal is taken from the queue;
\* a search that gives up on a reachable goal has marked more than 500
\* cells, and the goal may be among the first 500 of them, still queued.
PathUnlessCapReached ==
  (Returned("findPathBFS") /\ ~util.result[1].found /\ Reachable) =>
     \E s \in {SearchOf} : Len(s.order) > MAX_NODES /\ s.queue # <<>>

\* C36 as stated: a reachable goal among the first 500 cells marked visited
\* is found.
PathToGoalAmongFirstVisited ==
  (Returned("findPathBFS") /\ ~util.result[1].found /\ Reachable) =>
     \E s \in {SearchOf} : ~MarkedAmongFirst(s, MAX_NODES)

\* C36, the search gave up on a goal it had marked among the first 500.
MarkedGoalCutOff ==
  /\ Returned("findPathBFS") /\ ~util.result[1].found /\ Reachable
  /\ util.args[3] = {}
  /\ \E s \in {SearchOf} : MarkedAmongFirst(s, MAX_NODES)

\* C36, a goal as far away was found.
FarGoalFound ==
  /\ Returned("findPathBFS") /\ util.result[1].found
  /\ Len(util.result[1].path) = FarSteps

(***************************************************************************)
(* The Dashboard playback loop.                                            *)
(***************************************************************************)
\* Every unpaused firing whose tick returns a game-over snapshot records its
\* score and asks for a restart, whether the tick ended the game or the
\* game was over before.
EveryGameOverFiringCounts ==
  [][(op' = "interval" /\ ~dashboard.paused /\ game'.gameOver) =>
       /\ dashboard'.totalScore = dashboard.totalScore + game'.score
       /\ dashboard'.runCount = (dashboard.runCount + 1) % RunsPerRound
       /\ dashboard'.scheduled = dashboard.scheduled + 1
       /\ Len(dashboard'.pending) = Len(dashboard.pending) + 1]_vars

\* C39 as stated: each game that ends is counted exactly once in runCount
\* and totalScore and schedules exactly one restart.
EndedGameCountedOnce ==
  /\ dashboard.runCount = dashboard.ended % RunsPerRound
  /\ dashboard.totalScore = dashboard.sum
  /\ dashboard.scheduled = dashboard.ended

\* C39, one game has ended with 20 points and is in the counts twice, with
\* two restarts on their way.
EndedGameCountedTwice ==
  /\ op = "interval" /\ game.gameOver /\ game.score = 20
  /\ dashboard.ended = 1 /\ dashboard.sum = 20
  /\ dashboard.runCount = 2 /\ dashboard.totalScore = 40
  /\ dashboard.scheduled = 2 /\ Len(dashboard.pending) = 2

====
